---------------------------- MODULE Spec2Model ----------------------------
(***************************************************************************)
(* A model of the object-storage upload engine of pylemonorg/gotools       *)
(* (package obsutil, obs_client.go).                                       *)
(*                                                                         *)
(*   Spec       ObsClient.PutBytesMultipart: the direct put of a small     *)
(*              payload, and the goroutine fan-out / fan-in of the         *)
(*              multipart path (workers, semaphore, results channel,       *)
(*              WaitGroup closer, collector, abort-or-complete decision).  *)
(*   SpecRetry  ObsClient.PutBytesWithRetry: the attempt loop, the         *)
(*              per-attempt goroutine and channel, the timeout race.       *)
(*   SpecStream StreamingUploader: concurrent callers of WritePart,        *)
(*              Complete and Abort on one uploader.                        *)
(*   SpecLock   ObsClient.TryCreateLock: callers racing for one lock key.  *)
(*                                                                         *)
(* The OBS SDK client (oc.client) is the environment: each of its calls    *)
(* returns success or one of a small set of errors, chosen freely.         *)
(***************************************************************************)
EXTENDS Integers, Sequences, FiniteSets, TLC

(***************************************************************************)
(* Bounds of the model.                                                    *)
(***************************************************************************)
MaxDataLen == 4
MaxPartSize == 2
MaxConcurrency == 2
MaxParts == 3
MaxRetriesArg == 2
MaxDelayArg == 2
MaxThreads == 2
MaxWrites == 2
MaxChunkLen == 1
MaxContentLen == 2
MaxRecords == 3
MaxMonCalls == 2
MaxSamples == 1

(***************************************************************************)
(* Program constants.                                                      *)
(***************************************************************************)
\* partSize = 50 * 1024 * 1024 when the argument is <= 0
DefaultPartSize == 52428800
\* concurrency = 5 when the argument is <= 0
DefaultConcurrency == 5
\* maxRetries = 3 when the argument is <= 0
DefaultMaxRetries == 3
\* retryDelay = time.Second when the argument is <= 0 (durations are in seconds)
DefaultRetryDelay == 1
\* const putObjectTimeout = 30 * time.Second
putObjectTimeout == 30
\* for retry := 0; retry < 3; retry++ in WritePart
MaxUploadAttempts == 3

(***************************************************************************)
(* Errors.  A Go error is modelled as the sequence of its layers, the      *)
(* outermost first: fmt.Errorf("prefix: %w", err) puts one layer in front, *)
(* errors.Unwrap takes it off, and err.Error() is the layers' text joined. *)
(* A text is a sequence of words.  NoErr is the nil error.                 *)
(***************************************************************************)
NoErr == << >>

Wrap(prefix, err) == <<prefix>> \o err

Unwrap(err) == IF Len(err) > 1 THEN Tail(err) ELSE NoErr

RECURSIVE ErrorText(_)
ErrorText(err) == IF err = << >> THEN << >> ELSE Head(err) \o ErrorText(Tail(err))

\* strings.Contains, on words
Contains(s, kw) ==
    \E i \in 0..(Len(s) - Len(kw)) : \A j \in 1..Len(kw) : s[i + j] = kw[j]

retryableKeywords ==
    { <<"503">>, <<"Service", "Unavailable">>,
      <<"GetQosTokenException">>, <<"connection", "token">>,
      <<"429">>, <<"Too", "Many", "Requests">>, <<"Indicator=601">>,
      <<"timeout">>, <<"connection">>, <<"wsarecv">>,
      <<"i/o", "timeout">>, <<"connection", "reset">> }

\* variant of isRetryable: only the network keywords are looked for
isRetryable_NetworkOnly(err) ==
    IF err = NoErr THEN FALSE
    ELSE \E kw \in {<<"timeout">>, <<"connection">>, <<"wsarecv">>} :
            Contains(ErrorText(err), kw)

\* variant of isRetryable: every non-nil error is retryable
isRetryable_Always(err) == err # NoErr

\* variant of isRetryable: the timeout message of PutBytesWithRetry is matched too
isRetryable_OwnTimeout(err) ==
    IF err = NoErr THEN FALSE
    ELSE \/ \E kw \in retryableKeywords : Contains(ErrorText(err), kw)
         \/ Contains(ErrorText(err), <<"chaoshi(30s)">>)

\* for _, kw := range retryableKeywords { if strings.Contains(err.Error(), kw) ... }
isRetryable(err) ==
    IF err = NoErr THEN FALSE
    ELSE \E kw \in retryableKeywords : Contains(ErrorText(err), kw)

\* What a call of the SDK operation op can answer besides success: a throttling
\* error and an authorisation error.  The operation's name makes the errors of
\* different operations different values.
SdkTransient(op) == << <<op, "Status=503", "503", "Service", "Unavailable">> >>
SdkFatal(op) == << <<op, "Status=403", "AccessDenied">> >>
SdkErrors(op) == {SdkTransient(op), SdkFatal(op)}
SdkOutcomes(op) == {NoErr} \cup SdkErrors(op)

(***************************************************************************)
(* Payloads.  The code never looks at a byte's value, only at positions;   *)
(* byte i of the payload of length n is i, so any reordering, gap or       *)
(* duplication in what is stored shows.                                    *)
(***************************************************************************)
Payload(n) == [i \in 1..n |-> i % 256]

Min(a, b) == IF a < b THEN a ELSE b

VARIABLES
    \* ---- PutBytesMultipart: arguments
    data,          \* []byte
    partSize,      \* the argument, before the default is applied
    concurrency,   \* the argument, before the default is applied
    \* ---- PutBytesMultipart: the calling goroutine
    mpc,           \* where the caller is
    spawned,       \* the loop variable i of the dispatch loop
    uploadID,
    parts,         \* []obs.Part collected so far
    uploadErr,
    ret,           \* the returned error, once mpc = "done"
    \* ---- PutBytesMultipart: goroutines and channels
    wpc,           \* worker goroutine of part index i (0-based)
    sem,           \* number of tokens in the channel sem
    wg,            \* the WaitGroup counter
    results,       \* the buffer of the channel results
    closed,        \* results has been closed
    \* ---- the OBS service, as seen through oc.client
    calls,         \* how often each SDK operation has been invoked
    upCalls,       \* per part number: UploadPart invocations
    upSent,        \* per part number: the last UploadPartInput (upload id, body)
    upOut,         \* per part number: the outcomes of its UploadPart calls
    putSent,       \* the body of the PutObjectInput, if PutObject was called
    lastOut,       \* the outcome of the last put / initiate / complete / abort
    submitted,     \* the Parts of the CompleteMultipartUploadInput
    stored,        \* the object as stored under key, or "none"
    decisions,     \* the CompleteMultipartUpload / AbortMultipartUpload calls made
    \* ---- PutBytesWithRetry
    rArgs, rpc, attempt, lastErr, rRet, ops, invoked, sleeps,
    \* ---- StreamingUploader: the fields guarded by su.mu
    suParts,       \* su.parts
    suPartNumber,  \* su.partNumber
    suAborted,     \* su.aborted
    suCompleted,   \* su.completed
    \* ---- StreamingUploader: the calling goroutines
    thr,           \* per goroutine: its WritePart in progress, if any
    suRet,         \* the call that returned last, and what it returned
    \* ---- StreamingUploader: the OBS service, as seen through oc.client
    suEntered,     \* WritePart calls that took a part number so far
    suUp,          \* per part number: the calls that sent it in an UploadPart
    suCalls,       \* successful CompleteMultipartUpload, AbortMultipartUpload calls,
                   \* WritePart calls that gave up
    \* ---- TryCreateLock
    lkArgs,        \* per caller: lockContent and instanceID
    lk,            \* per caller: where its call is, what it did and returned
    lkStore,       \* the object under the lock key in the bucket, if any
    \* ---- monitor: filterRecords and AnalyzeRecords
    anRecords,     \* the argument records
    anOpts,        \* the argument opts, None for nil
    anRet,         \* the function called and what it returned
    \* ---- RedisClient.ExecuteWithRetry
    rdArgs,        \* maxRetries and retryDelay as passed
    rdParams,      \* rc.params is set
    rdClient,      \* rc.client: "old", "nil" after a Close, "new" after a redial
    rdPc,          \* where the call is
    rdI,           \* the loop variable i
    rdLastErr,
    rdTrace,       \* the operation and Reconnect calls made, with what they returned
    rdSleeps,      \* the time.Sleep calls made, with their durations
    rdRet,         \* the returned (result, error), once rdPc = "done"
    \* ---- ResourceMonitor
    rmRunning,     \* m.running
    rmStopChan,    \* m.stopChan: the channel the field holds
    rmChans,       \* the channels made so far, numbered from 1
    rmClosed,      \* the channels that have been closed
    rmWg,          \* the counter of m.wg
    rmLoops,       \* the loop goroutines started so far
    rmHistory,     \* len(m.history), counted up to MaxSamples
    rmCall,        \* per caller: its Start or Stop in progress, the calls it made
    rmPanic,       \* the process panicked
    \* ---- NewStreamingUploader
    suNew          \* what the call returned, None before it returns

mpVars == <<data, partSize, concurrency, mpc, spawned, uploadID, parts, uploadErr,
            ret, wpc, sem, wg, results, closed, calls, upCalls, upSent, upOut,
            putSent, lastOut, submitted, stored, decisions>>
rtVars == <<rArgs, rpc, attempt, lastErr, rRet, ops, invoked, sleeps>>
suVars == <<suParts, suPartNumber, suAborted, suCompleted, thr, suRet,
            suEntered, suUp, suCalls>>
lkVars == <<lkArgs, lk, lkStore>>
anVars == <<anRecords, anOpts, anRet>>
rdVars == <<rdArgs, rdParams, rdClient, rdPc, rdI, rdLastErr, rdTrace, rdSleeps, rdRet>>
rmVars == <<rmRunning, rmStopChan, rmChans, rmClosed, rmWg, rmLoops, rmHistory, rmCall, rmPanic>>
nuVars == <<suNew>>
vars == <<mpVars, rtVars, suVars, lkVars, anVars, rdVars, rmVars, nuVars>>

(***************************************************************************)
(* PutBytesMultipart                                                       *)
(***************************************************************************)
EffPartSize(ps) == IF ps <= 0 THEN DefaultPartSize ELSE ps

EffConcurrency(c) == IF c <= 0 THEN DefaultConcurrency ELSE c

\* variant of IsSmall: the comparison made strict
IsSmall_Strict(dataLen, ps) == dataLen < ps

\* if dataLen <= partSize: the direct put
IsSmall(dataLen, ps) == dataLen <= ps

\* partCount := int((dataLen + partSize - 1) / partSize)
PartCount(dataLen, ps) == (dataLen + ps - 1) \div ps

dataLen == Len(data)
pSize == EffPartSize(partSize)
partCount == PartCount(dataLen, pSize)
PartIdx == 0..(partCount - 1)

\* start := partNum * partSize; end := min(start + partSize, dataLen); data[start:end]
PartBody(d, ps, partNum) ==
    SubSeq(d, partNum * ps + 1, Min(partNum * ps + ps, Len(d)))

\* The content tag the service returns for an uploaded body.
ETagOf(body) == <<"etag">> \o body

\* Optional values: << >> is "no value", <<x>> is the value x.
None == << >>
Some(x) == <<x>>

\* variant of SemCap: one token per part, whatever the concurrency
SemCap_PartCount(c) == partCount

\* variant of SemCap: a channel without buffer, which nobody receives from
SemCap_Zero(c) == 0

\* sem := make(chan struct{}, concurrency)
SemCap(c) == c

\* variant of SmallPathReturn: the error of the put is dropped
SmallPathReturn_Swallow(err) == NoErr

\* _, err := oc.PutBytes(key, data); return err
\* (PutBytes -> PutObject wraps the SDK's error)
SmallPathReturn(err) ==
    IF err = NoErr THEN NoErr ELSE Wrap(<<"obsutil:", "put-object", "failed:">>, err)

\* variant of WorkerResult: a failed part is reported as uploaded
WorkerResult_SwallowErr(partNum, body, out) ==
    [PartNumber |-> partNum + 1, ETag |-> ETagOf(body), Err |-> NoErr]

\* results <- partResult{PartNumber: partNum + 1, Err: err}     on an error,
\* results <- partResult{PartNumber: partNum + 1, ETag: output.ETag} otherwise
WorkerResult(partNum, body, out) ==
    IF out # NoErr
    THEN [PartNumber |-> partNum + 1, ETag |-> << >>, Err |-> out]
    ELSE [PartNumber |-> partNum + 1, ETag |-> ETagOf(body), Err |-> NoErr]

\* variant of WaitReturns: results is closed without waiting for the workers
WaitReturns_NoWait(n) == TRUE

\* wg.Wait() returns when the counter is zero
WaitReturns(n) == n = 0

\* variant of ShouldAbort: uploadErr is not looked at, the count compared with >
ShouldAbort_CountOnly(err, ps, n) == Len(ps) > n

\* if uploadErr != nil || len(parts) != partCount
ShouldAbort(err, ps, n) == err # NoErr \/ Len(ps) # n

\* variant of AbortReturn: a failed abort is returned in place of the upload error
AbortReturn_Escalate(err, abortOut, ps, n) ==
    IF abortOut # NoErr THEN Wrap(<<"obsutil:", "abort", "failed:">>, abortOut)
    ELSE IF err # NoErr THEN Wrap(<<"obsutil:", "multipart", "upload", "failed:">>, err)
    ELSE << <<"obsutil:", "parts", "incomplete">> >>

\* oc.abortMultipartUpload(key, uploadID) drops what AbortMultipartUpload
\* returns; the caller returns the upload error, wrapped, or the count mismatch.
AbortReturn(err, abortOut, ps, n) ==
    IF err # NoErr THEN Wrap(<<"obsutil:", "multipart", "upload", "failed:">>, err)
    ELSE << <<"obsutil:", "parts", "incomplete">> >>

\* variant of CompleteFailure: a failed complete is followed by an abort
CompleteFailure_Abort(out) ==
    [ret |-> Wrap(<<"obsutil:", "complete", "multipart", "failed:">>, out), abort |-> 1]

\* if _, err = CompleteMultipartUpload(...); err != nil { return wrapped } : no abort
CompleteFailure(out) ==
    [ret |-> Wrap(<<"obsutil:", "complete", "multipart", "failed:">>, out), abort |-> 0]

\* Insertion of r into a list sorted by PartNumber (stable).
RECURSIVE InsertPart(_, _)
InsertPart(r, s) ==
    IF s = << >> THEN <<r>>
    ELSE IF r.PartNumber < Head(s).PartNumber THEN <<r>> \o s
    ELSE <<Head(s)>> \o InsertPart(r, Tail(s))

RECURSIVE SortAscending(_)
SortAscending(s) ==
    IF s = << >> THEN << >>
    ELSE InsertPart(s[Len(s)], SortAscending(SubSeq(s, 1, Len(s) - 1)))

\* variant of SortParts: the parts are submitted in arrival order
SortParts_Unsorted(s) == s

\* sort.Slice(parts, func(i, j int) bool { return parts[i].PartNumber < parts[j].PartNumber })
SortParts(s) == SortAscending(s)

Parts == 1..MaxParts

Threads == 1..MaxThreads

IdleThread ==
    [pc |-> "idle", data |-> << >>, partNum |-> 0, entry |-> 0, retry |-> 0,
     lastErr |-> NoErr, slept |-> << >>, issued |-> 0]

NoCall ==
    [op |-> "none", data |-> << >>, err |-> NoErr, sent |-> None,
     remote |-> None, tick |-> 0]

\* A fresh uploader as NewStreamingUploader returns it, no call made yet.
FreshUploader ==
    /\ suParts = << >>
    /\ suPartNumber = 0
    /\ suAborted = FALSE
    /\ suCompleted = FALSE
    /\ suRet = NoCall
    /\ suEntered = 0
    /\ suUp = [p \in 0..MaxWrites |-> {}]
    /\ suCalls = [completed |-> 0, aborts |-> 0, failedWrites |-> 0]

Callers == {1, 2}

\* The locals of a TryCreateLock call and the trace of what it did: the SDK
\* calls made and the answer of the latest (out), the callers that had
\* returned when it began (after), the result of the existence check, the
\* sleep taken, the data read back, the value returned.
NoLockCall ==
    [pc |-> "off", after |-> {}, heads |-> 0, puts |-> 0, gets |-> 0,
     out |-> None, exists |-> None, slept |-> 0, data |-> None, ret |-> None]

LockIdle ==
    /\ lkArgs = [c \in Callers |-> [lockContent |-> << >>, instanceID |-> << >>]]
    /\ lk = [c \in Callers |-> NoLockCall]
    /\ lkStore = None

StreamIdle ==
    /\ FreshUploader
    /\ thr = [t \in Threads |-> [IdleThread EXCEPT !.pc = "off"]]

\* A Go slice: nil, or a list of items.
NilSlice == [nil |-> TRUE, items |-> << >>]
Slice(s) == [nil |-> FALSE, items |-> s]

NoAnalysis ==
    [fn |-> "none", filtered |-> NilSlice, results |-> NilSlice, report |-> << >>]

AnalyzeIdle ==
    /\ anRecords = NilSlice
    /\ anOpts = None
    /\ anRet = [NoAnalysis EXCEPT !.fn = "off"]

RedisIdle ==
    /\ rdArgs = [maxRetries |-> 0, retryDelay |-> 0]
    /\ rdParams = FALSE
    /\ rdClient = "nil"
    /\ rdPc = "off"
    /\ rdI = 0
    /\ rdLastErr = NoErr
    /\ rdTrace = << >>
    /\ rdSleeps = << >>
    /\ rdRet = [result |-> None, err |-> NoErr]

MonCallers == {1, 2}

NoMonCall == [pc |-> "idle", made |-> 0]

\* A monitor as NewResourceMonitor returns it.
FreshMonitor ==
    /\ rmRunning = FALSE
    /\ rmStopChan = 1
    /\ rmChans = 1
    /\ rmClosed = {}
    /\ rmWg = 0
    /\ rmLoops = << >>
    /\ rmHistory = 0
    /\ rmPanic = FALSE

MonitorIdle ==
    /\ FreshMonitor
    /\ rmCall = [c \in MonCallers |-> [NoMonCall EXCEPT !.pc = "off"]]

NewUploaderIdle == suNew = None

InitMP ==
    /\ \E n \in 0..MaxDataLen : data = Payload(n)
    /\ partSize \in 0..MaxPartSize
    /\ concurrency \in 0..MaxConcurrency
    /\ PartCount(Len(data), EffPartSize(partSize)) <= MaxParts
    /\ mpc = "entry"
    /\ spawned = 0
    /\ uploadID = None
    /\ parts = << >>
    /\ uploadErr = NoErr
    /\ ret = NoErr
    /\ wpc = [i \in 0..(MaxParts - 1) |-> "none"]
    /\ sem = 0
    /\ wg = 0
    /\ results = << >>
    /\ closed = FALSE
    /\ calls = [op \in {"PutObject", "Initiate", "Complete", "Abort"} |-> 0]
    /\ upCalls = [p \in Parts |-> 0]
    /\ upSent = [p \in Parts |-> None]
    /\ upOut = [p \in Parts |-> << >>]
    /\ putSent = None
    /\ lastOut = NoErr
    /\ submitted = None
    /\ stored = None
    /\ decisions = << >>

RetryIdle ==
    /\ rArgs = [entry |-> "PutBytesWithRetry", maxRetries |-> 0, retryDelay |-> 0]
    /\ rpc = "off"
    /\ attempt = 0
    /\ lastErr = NoErr
    /\ rRet = [returned |-> FALSE, err |-> NoErr, from |-> 0]
    /\ ops = << >>
    /\ invoked = 0
    /\ sleeps = << >>

Init == InitMP /\ RetryIdle /\ StreamIdle /\ LockIdle /\ AnalyzeIdle /\ RedisIdle /\ MonitorIdle /\ NewUploaderIdle

Bump(f, k) == [f EXCEPT ![k] = @ + 1]

\* What the service holds for part number p: the body of its last successful
\* UploadPart, if any.
PartStored(p) ==
    IF upOut[p] # << >> /\ upOut[p][Len(upOut[p])] = NoErr THEN upSent[p][1].body ELSE << >>

\* CompleteMultipartUpload assembles the listed parts in list order.
RECURSIVE Assemble(_)
Assemble(list) ==
    IF list = << >> THEN << >>
    ELSE PartStored(Head(list).PartNumber) \o Assemble(Tail(list))

\* variant of ErrInitiateFailed: the failure of the initiate is not reported
ErrInitiateFailed_Dropped(out) == NoErr

\* fmt.Errorf("obsutil: initiate multipart failed: %w", err)
ErrInitiateFailed(out) ==
    Wrap(<<"obsutil:", "initiate", "multipart", "failed:">>, out)

\* The small payload: one PutObject of the whole payload, and return.
DirectPut ==
    /\ mpc = "entry"
    /\ IsSmall(dataLen, pSize)
    /\ \E out \in SdkOutcomes("PutObject") :
        /\ calls' = Bump(calls, "PutObject")
        /\ putSent' = Some(data)
        /\ lastOut' = out
        /\ stored' = IF out = NoErr THEN Some(data) ELSE stored
        /\ ret' = SmallPathReturn(out)
    /\ mpc' = "done"
    /\ UNCHANGED <<data, partSize, concurrency, spawned, uploadID, parts, uploadErr,
                   wpc, sem, wg, results, closed, upCalls, upSent, upOut, submitted,
                   decisions>>
    /\ UNCHANGED <<rtVars, suVars, lkVars, anVars, rdVars, rmVars, nuVars>>

UploadIds == {"upload-a", "upload-b"}

\* initOutput, err := oc.client.InitiateMultipartUpload(initInput)
Initiate ==
    /\ mpc = "entry"
    /\ ~IsSmall(dataLen, pSize)
    /\ calls' = Bump(calls, "Initiate")
    /\ \/ /\ \E id \in UploadIds : uploadID' = Some(id)
          /\ lastOut' = NoErr
          /\ mpc' = "dispatch"
          /\ ret' = ret
       \/ \E out \in SdkErrors("Initiate") :
          /\ lastOut' = out
          /\ ret' = ErrInitiateFailed(out)
          /\ mpc' = "done"
          /\ uploadID' = uploadID
    /\ UNCHANGED <<data, putSent, partSize, concurrency, spawned, parts, uploadErr,
                   wpc, sem, wg, results, closed, upCalls, upSent, upOut, submitted, stored, decisions>>
    /\ UNCHANGED <<rtVars, suVars, lkVars, anVars, rdVars, rmVars, nuVars>>

\* for i := 0; i < partCount; i++ { wg.Add(1); go func(partNum int) {...}(i) }
Dispatch ==
    /\ mpc = "dispatch"
    /\ spawned < partCount
    /\ wg' = wg + 1
    /\ wpc' = [wpc EXCEPT ![spawned] = "acquire"]
    /\ spawned' = spawned + 1
    /\ UNCHANGED <<data, putSent, partSize, concurrency, mpc, uploadID, parts, uploadErr, ret,
                   sem, results, closed, calls, upCalls, upSent, upOut, lastOut,
                   submitted, stored, decisions>>
    /\ UNCHANGED <<rtVars, suVars, lkVars, anVars, rdVars, rmVars, nuVars>>

\* go func() { wg.Wait(); close(results) }() : the goroutine is started
StartCloser ==
    /\ mpc = "dispatch"
    /\ spawned = partCount
    /\ mpc' = "collect"
    /\ UNCHANGED <<data, putSent, partSize, concurrency, spawned, uploadID, parts, uploadErr, ret,
                   wpc, sem, wg, results, closed, calls, upCalls, upSent, upOut, lastOut,
                   submitted, stored, decisions>>
    /\ UNCHANGED <<rtVars, suVars, lkVars, anVars, rdVars, rmVars, nuVars>>

\* wg.Wait(); close(results)
CloseResults ==
    /\ mpc = "collect"    \* the goroutine exists; the range loop ends only after it
    /\ ~closed
    /\ WaitReturns(wg)
    /\ closed' = TRUE
    /\ UNCHANGED <<data, putSent, partSize, concurrency, mpc, spawned, uploadID, parts, uploadErr,
                   ret, wpc, sem, wg, results, calls, upCalls, upSent, upOut, lastOut,
                   submitted, stored, decisions>>
    /\ UNCHANGED <<rtVars, suVars, lkVars, anVars, rdVars, rmVars, nuVars>>

\* sem <- struct{}{} ; ... ; the call of oc.client.UploadPart(uploadInput) starts
WorkerStart(i) ==
    /\ wpc[i] = "acquire"
    /\ sem < SemCap(EffConcurrency(concurrency))
    /\ sem' = sem + 1
    /\ wpc' = [wpc EXCEPT ![i] = "uploading"]
    /\ upCalls' = Bump(upCalls, i + 1)
    /\ upSent' = [upSent EXCEPT ![i + 1] =
                    Some([id |-> uploadID, body |-> PartBody(data, pSize, i)])]
    /\ UNCHANGED <<data, putSent, partSize, concurrency, mpc, spawned, uploadID, parts, uploadErr,
                   ret, wg, results, closed, calls, upOut, lastOut, submitted, stored, decisions>>
    /\ UNCHANGED <<rtVars, suVars, lkVars, anVars, rdVars, rmVars, nuVars>>

\* UploadPart returns; the worker sends its partResult (results has room for all)
WorkerReturn(i) ==
    /\ wpc[i] = "uploading"
    /\ Len(results) < partCount    \* results := make(chan partResult, partCount)
    /\ \E out \in SdkOutcomes("UploadPart") :
        /\ upOut' = [upOut EXCEPT ![i + 1] = Append(@, out)]
        /\ results' = Append(results, WorkerResult(i, PartBody(data, pSize, i), out))
    /\ wpc' = [wpc EXCEPT ![i] = "sent"]
    /\ UNCHANGED <<data, putSent, partSize, concurrency, mpc, spawned, uploadID, parts, uploadErr,
                   ret, sem, wg, closed, calls, upCalls, upSent, lastOut, submitted, stored, decisions>>
    /\ UNCHANGED <<rtVars, suVars, lkVars, anVars, rdVars, rmVars, nuVars>>

\* the deferred calls: <-sem, then wg.Done()
WorkerExit(i) ==
    /\ wpc[i] = "sent"
    /\ sem' = sem - 1
    /\ wg' = wg - 1
    /\ wpc' = [wpc EXCEPT ![i] = "exited"]
    /\ UNCHANGED <<data, putSent, partSize, concurrency, mpc, spawned, uploadID, parts, uploadErr,
                   ret, results, closed, calls, upCalls, upSent, upOut, lastOut,
                   submitted, stored, decisions>>
    /\ UNCHANGED <<rtVars, suVars, lkVars, anVars, rdVars, rmVars, nuVars>>

\* for r := range results { ... } : one received result
Collect ==
    /\ mpc = "collect"
    /\ results # << >>
    /\ LET r == Head(results) IN
        IF r.Err # NoErr
        THEN uploadErr' = r.Err /\ parts' = parts
        ELSE parts' = Append(parts, [PartNumber |-> r.PartNumber, ETag |-> r.ETag])
             /\ uploadErr' = uploadErr
    /\ results' = Tail(results)
    /\ UNCHANGED <<data, putSent, partSize, concurrency, mpc, spawned, uploadID, ret,
                   wpc, sem, wg, closed, calls, upCalls, upSent, upOut, lastOut,
                   submitted, stored, decisions>>
    /\ UNCHANGED <<rtVars, suVars, lkVars, anVars, rdVars, rmVars, nuVars>>

\* the range loop ends: results is closed and drained
CollectEnd ==
    /\ mpc = "collect"
    /\ results = << >>
    /\ closed
    /\ mpc' = "decide"
    /\ UNCHANGED <<data, putSent, partSize, concurrency, spawned, uploadID, parts, uploadErr, ret,
                   wpc, sem, wg, results, closed, calls, upCalls, upSent, upOut, lastOut,
                   submitted, stored, decisions>>
    /\ UNCHANGED <<rtVars, suVars, lkVars, anVars, rdVars, rmVars, nuVars>>

\* the failure branch: abortMultipartUpload, return the error
Abort ==
    /\ mpc = "decide"
    /\ ShouldAbort(uploadErr, parts, partCount)
    /\ calls' = Bump(calls, "Abort")
    /\ \E out \in SdkOutcomes("Abort") :
        /\ lastOut' = out
        /\ ret' = AbortReturn(uploadErr, out, parts, partCount)
    /\ decisions' = Append(decisions, [op |-> "Abort", id |-> uploadID])
    /\ mpc' = "done"
    /\ UNCHANGED <<data, putSent, partSize, concurrency, spawned, uploadID, parts, uploadErr,
                   wpc, sem, wg, results, closed, upCalls, upSent, upOut, submitted, stored>>
    /\ UNCHANGED <<rtVars, suVars, lkVars, anVars, rdVars, rmVars, nuVars>>

\* the success branch: sort, CompleteMultipartUpload
Complete ==
    /\ mpc = "decide"
    /\ ~ShouldAbort(uploadErr, parts, partCount)
    /\ parts' = SortParts(parts)
    /\ submitted' = Some(parts')
    /\ \E out \in SdkOutcomes("Complete") :
        /\ lastOut' = out
        /\ IF out = NoErr
           THEN /\ stored' = Some(Assemble(parts'))
                /\ ret' = NoErr
                /\ calls' = Bump(calls, "Complete")
           ELSE /\ stored' = stored
                /\ ret' = CompleteFailure(out).ret
                /\ calls' = [calls EXCEPT !["Complete"] = @ + 1,
                                          !["Abort"] = @ + CompleteFailure(out).abort]
        /\ decisions' =
              Append(decisions, [op |-> "Complete", id |-> uploadID])
              \o (IF out # NoErr /\ CompleteFailure(out).abort > 0
                  THEN <<[op |-> "Abort", id |-> uploadID]>> ELSE << >>)
    /\ mpc' = "done"
    /\ UNCHANGED <<data, putSent, partSize, concurrency, spawned, uploadID, uploadErr,
                   wpc, sem, wg, results, closed, upCalls, upSent, upOut>>
    /\ UNCHANGED <<rtVars, suVars, lkVars, anVars, rdVars, rmVars, nuVars>>

NextMP ==
    \/ DirectPut
    \/ Initiate
    \/ Dispatch
    \/ StartCloser
    \/ CloseResults
    \/ \E i \in 0..(MaxParts - 1) : WorkerStart(i)
    \/ \E i \in 0..(MaxParts - 1) : WorkerReturn(i)
    \/ \E i \in 0..(MaxParts - 1) : WorkerExit(i)
    \/ Collect
    \/ CollectEnd
    \/ Abort
    \/ Complete

Spec == Init /\ [][NextMP]_vars

(***************************************************************************)
(* PutBytesWithRetry                                                       *)
(*                                                                         *)
(* ops[k] is the goroutine of attempt k-1 together with its channel ch     *)
(* (capacity 1, one sender): "running" while PutObject has not returned,   *)
(* "sent" once its putResult is in ch, "received" once the caller took it  *)
(* (by is then the attempt, counted from 1, whose select took it).         *)
(* rRet.from is the attempt, counted from 1, whose putResult the call      *)
(* returned; 0 when it returned none.                                      *)
(***************************************************************************)
\* variant of EffMaxRetries: the default also replaces maxRetries = 1
EffMaxRetries_Threshold(m) == IF m <= 1 THEN DefaultMaxRetries ELSE m

\* if maxRetries <= 0 { maxRetries = 3 }
EffMaxRetries(m) == IF m <= 0 THEN DefaultMaxRetries ELSE m

\* if retryDelay <= 0 { retryDelay = time.Second }
EffRetryDelay(d) == IF d <= 0 THEN DefaultRetryDelay ELSE d

RECURSIVE Pow2(_)
Pow2(n) == IF n <= 0 THEN 1 ELSE 2 * Pow2(n - 1)

\* variant of BackoffDelay: the shift is by attempt, not attempt - 1
BackoffDelay_ShiftByAttempt(d, a) == d * Pow2(a)

\* delay := retryDelay * time.Duration(1<<uint(attempt-1))
BackoffDelay(d, a) == d * Pow2(a - 1)

\* fmt.Errorf("obsutil: PutObject <timed out>(%v)", putObjectTimeout)
TimeoutErr == << <<"obsutil:", "PutObject", "chaoshi(30s)">> >>

\* oc.PutObject wraps what the SDK returns
PutObjectErr(out) ==
    IF out = NoErr THEN NoErr ELSE Wrap(<<"obsutil:", "put-object", "failed:">>, out)

\* fmt.Errorf("obsutil: upload failed (retried %d times): %w", maxRetries, lastErr)
ExhaustedErr(err) == Wrap(<<"obsutil:", "upload", "failed", "(retried", "maxRetries", "times):">>, err)

\* The call is made through PutBytesWithRetry or through PutStringWithRetry.
RetryEntries == {"PutBytesWithRetry", "PutStringWithRetry"}

\* return oc.PutBytesWithRetry(key, []byte(content), maxRetries, retryDelay):
\* the arguments PutBytesWithRetry gets from PutStringWithRetry
PutStringWithRetry(a) ==
    [maxRetries |-> a.maxRetries, retryDelay |-> a.retryDelay]

\* The arguments PutBytesWithRetry is entered with.
bytesArgs ==
    IF rArgs.entry = "PutStringWithRetry" THEN PutStringWithRetry(rArgs)
    ELSE [maxRetries |-> rArgs.maxRetries, retryDelay |-> rArgs.retryDelay]

maxRetries == EffMaxRetries(bytesArgs.maxRetries)
retryDelay == EffRetryDelay(bytesArgs.retryDelay)

MultipartIdle ==
    /\ data = << >>
    /\ partSize = 0
    /\ concurrency = 0
    /\ mpc = "off"
    /\ spawned = 0
    /\ uploadID = None
    /\ parts = << >>
    /\ uploadErr = NoErr
    /\ ret = NoErr
    /\ wpc = [i \in 0..(MaxParts - 1) |-> "none"]
    /\ sem = 0
    /\ wg = 0
    /\ results = << >>
    /\ closed = FALSE
    /\ calls = [op \in {"PutObject", "Initiate", "Complete", "Abort"} |-> 0]
    /\ upCalls = [p \in Parts |-> 0]
    /\ upSent = [p \in Parts |-> None]
    /\ upOut = [p \in Parts |-> << >>]
    /\ putSent = None
    /\ lastOut = NoErr
    /\ submitted = None
    /\ stored = None
    /\ decisions = << >>

InitRetry ==
    /\ rArgs \in [entry : RetryEntries,
                   maxRetries : (-1)..MaxRetriesArg, retryDelay : 0..MaxDelayArg]
    /\ rpc = "loop"
    /\ attempt = 0
    /\ lastErr = NoErr
    /\ rRet = [returned |-> FALSE, err |-> NoErr, from |-> 0]
    /\ ops = << >>
    /\ invoked = 0
    /\ sleeps = << >>
    /\ MultipartIdle
    /\ StreamIdle
    /\ LockIdle
    /\ AnalyzeIdle
    /\ RedisIdle
    /\ MonitorIdle
    /\ NewUploaderIdle

\* The head of the loop: for attempt <= maxRetries, the backoff sleep (not before
\* the first attempt) and the start of the goroutine that calls PutObject; past
\* it, the return after the loop.
Attempt ==
    /\ rpc = "loop"
    /\ IF attempt <= maxRetries
       THEN /\ sleeps' = IF attempt > 0
                         THEN Append(sleeps, BackoffDelay(retryDelay, attempt))
                         ELSE sleeps
            /\ ops' = Append(ops, [st |-> "running", err |-> NoErr, by |-> 0])
            /\ invoked' = invoked + 1
            /\ rpc' = "race"
            /\ UNCHANGED <<rRet, lastErr>>
       ELSE /\ rRet' = [returned |-> TRUE, err |-> ExhaustedErr(lastErr), from |-> 0]
            /\ rpc' = "done"
            /\ UNCHANGED <<sleeps, ops, invoked, lastErr>>
    /\ UNCHANGED <<rArgs, attempt>>
    /\ UNCHANGED <<mpVars, suVars, lkVars, anVars, rdVars, rmVars, nuVars>>

\* PutObject of attempt k-1 returns; select { case ch <- putResult{out, err}: default: }
OpReturns(k) ==
    /\ rpc # "off"
    /\ k \in 1..Len(ops)
    /\ ops[k].st = "running"
    /\ \E out \in SdkOutcomes("PutObject") :
        ops' = [ops EXCEPT ![k] = [st |-> "sent", err |-> PutObjectErr(out), by |-> 0]]
    /\ UNCHANGED <<rArgs, rpc, attempt, lastErr, rRet, invoked, sleeps>>
    /\ UNCHANGED <<mpVars, suVars, lkVars, anVars, rdVars, rmVars, nuVars>>

\* variant of RecvChan: one channel made before the loop and shared by all attempts
RecvChan_Shared(a) == 1..(a + 1)

\* ch := make(chan putResult, 1) inside the loop: the select of attempt a
\* (counted from 0) receives from the channel of that attempt only
RecvChan(a) == {a + 1}

\* case r := <-ch
Receive ==
    /\ rpc = "race"
    /\ \E k \in RecvChan(attempt) :
        /\ ops[k].st = "sent"
        /\ LET r == ops[k] IN
            /\ ops' = [ops EXCEPT ![k].st = "received", ![k].by = attempt + 1]
            /\ IF r.err = NoErr
               THEN /\ rRet' = [returned |-> TRUE, err |-> NoErr, from |-> k]
                    /\ rpc' = "done"
                    /\ UNCHANGED <<attempt, lastErr>>
               ELSE /\ lastErr' = r.err
                    /\ IF attempt < maxRetries /\ isRetryable(r.err)
                       THEN /\ attempt' = attempt + 1
                            /\ rpc' = "loop"
                            /\ rRet' = rRet
                       ELSE /\ rRet' = [returned |-> TRUE, err |-> r.err, from |-> k]
                            /\ rpc' = "done"
                            /\ attempt' = attempt
    /\ UNCHANGED <<rArgs, invoked, sleeps>>
    /\ UNCHANGED <<mpVars, suVars, lkVars, anVars, rdVars, rmVars, nuVars>>

\* case <-time.After(putObjectTimeout)
Timeout ==
    /\ rpc = "race"
    /\ lastErr' = TimeoutErr
    /\ IF attempt < maxRetries
       THEN /\ attempt' = attempt + 1
            /\ rpc' = "loop"
            /\ rRet' = rRet
       ELSE /\ rRet' = [returned |-> TRUE, err |-> TimeoutErr, from |-> 0]
            /\ rpc' = "done"
            /\ attempt' = attempt
    /\ UNCHANGED <<rArgs, ops, invoked, sleeps>>
    /\ UNCHANGED <<mpVars, suVars, lkVars, anVars, rdVars, rmVars, nuVars>>

NextRetry ==
    \/ Attempt
    \/ \E k \in 1..Len(ops) : OpReturns(k)
    \/ Receive
    \/ Timeout

SpecRetry == InitRetry /\ [][NextRetry]_vars

(***************************************************************************)
(* StreamingUploader                                                       *)
(*                                                                         *)
(* One uploader, created by NewStreamingUploader, shared by the goroutines *)
(* in Threads.  Each goroutine makes one call at a time: WritePart,        *)
(* Complete or Abort.  su.mu is modelled by atomicity: a step is one       *)
(* critical section, or one SDK call made outside the lock.  Complete and  *)
(* Abort hold the lock from entry to return (defer Unlock), their SDK call *)
(* included, so each is one step.                                          *)
(*                                                                         *)
(* thr[t].pc is "idle" between calls, "upload" at the top of the loop body *)
(* of WritePart, "inflight" while UploadPart has not returned; entry is    *)
(* the rank of the call among those that took a part number, issued the    *)
(* number of UploadPart invocations it made so far.  suRet is the          *)
(* call that returned last: its arguments, its error, the parts it sent to *)
(* CompleteMultipartUpload and the SDK's outcome when it made a remote     *)
(* call; tick flips at every return so that two equal returns in a row     *)
(* still show.                                                             *)
(***************************************************************************)
Chunks == UNION {[1..n -> {7}] : n \in 0..MaxChunkLen}

ErrUploadAborted == << <<"obsutil:", "upload", "cancelled">> >>
ErrUploadCompleted == << <<"obsutil:", "upload", "completed">> >>
ErrNoParts == << <<"obsutil:", "no", "part", "uploaded">> >>
ErrPartsIncomplete(want, got) ==
    << <<"obsutil:", "parts", "incomplete:", "want", want, "got", got>> >>
ErrPartFailed(partNum, err) ==
    Wrap(<<"obsutil:", "part", partNum, "upload", "failed", "(3", "tries):">>, err)
ErrCompleteFailed(err) ==
    Wrap(<<"obsutil:", "complete", "multipart", "upload", "failed:">>, err)

\* variant of WritePartGate: empty data is uploaded as a part like any other
WritePartGate_EmptyIsAPart(d, aborted, completed) ==
    IF aborted THEN [go |-> FALSE, err |-> ErrUploadAborted]
    ELSE IF completed THEN [go |-> FALSE, err |-> ErrUploadCompleted]
    ELSE [go |-> TRUE, err |-> NoErr]

\* variant of WritePartGate: a completed uploader still takes parts
WritePartGate_NoCompletedCheck(d, aborted, completed) ==
    IF Len(d) = 0 THEN [go |-> FALSE, err |-> NoErr]
    ELSE IF aborted THEN [go |-> FALSE, err |-> ErrUploadAborted]
    ELSE [go |-> TRUE, err |-> NoErr]

\* The head of WritePart: the early returns before a part number is taken.
WritePartGate(d, aborted, completed) ==
    IF Len(d) = 0 THEN [go |-> FALSE, err |-> NoErr]
    ELSE IF aborted THEN [go |-> FALSE, err |-> ErrUploadAborted]
    ELSE IF completed THEN [go |-> FALSE, err |-> ErrUploadCompleted]
    ELSE [go |-> TRUE, err |-> NoErr]

\* variant of NextPartNumber: the number after the parts recorded so far
NextPartNumber_FromRecorded(pn, ps) == Len(ps) + 1

\* su.partNumber++
NextPartNumber(pn, ps) == pn + 1

\* variant of CompleteGate: parts still in flight do not hold Complete back
CompleteGate_NoCountCheck(aborted, completed, recorded, dispatched) ==
    IF aborted THEN [call |-> FALSE, err |-> ErrUploadAborted]
    ELSE IF completed THEN [call |-> FALSE, err |-> NoErr]
    ELSE IF recorded = 0 THEN [call |-> FALSE, err |-> ErrNoParts]
    ELSE [call |-> TRUE, err |-> NoErr]

\* variant of CompleteGate: a second Complete submits the parts again
CompleteGate_NoCompletedCheck(aborted, completed, recorded, dispatched) ==
    IF aborted THEN [call |-> FALSE, err |-> ErrUploadAborted]
    ELSE IF recorded = 0 THEN [call |-> FALSE, err |-> ErrNoParts]
    ELSE IF recorded # dispatched
         THEN [call |-> FALSE, err |-> ErrPartsIncomplete(dispatched, recorded)]
    ELSE [call |-> TRUE, err |-> NoErr]

\* The head of Complete: the early returns before the parts are submitted.
CompleteGate(aborted, completed, recorded, dispatched) ==
    IF aborted THEN [call |-> FALSE, err |-> ErrUploadAborted]
    ELSE IF completed THEN [call |-> FALSE, err |-> NoErr]
    ELSE IF recorded = 0 THEN [call |-> FALSE, err |-> ErrNoParts]
    ELSE IF recorded # dispatched
         THEN [call |-> FALSE, err |-> ErrPartsIncomplete(dispatched, recorded)]
    ELSE [call |-> TRUE, err |-> NoErr]

\* variant of RetrySleep: one second before every retry
RetrySleep_Constant(retry) == 1

\* time.Sleep(time.Second * time.Duration(retry)), in seconds
RetrySleep(retry) == retry

\* variant of CompleteResult: the uploader is marked completed even when
\* the service refused the parts
CompleteResult_MarkCompleted(out) ==
    [completed |-> TRUE,
     err |-> IF out = NoErr THEN NoErr ELSE ErrCompleteFailed(out)]

\* The tail of Complete: the wrapped error, or su.completed = true and nil.
CompleteResult(out) ==
    [completed |-> (out = NoErr),
     err |-> IF out = NoErr THEN NoErr ELSE ErrCompleteFailed(out)]

\* variant of AbortIsNoop: only an aborted uploader makes Abort a no-op
AbortIsNoop_AbortedOnly(completed, aborted) == aborted

\* if su.completed || su.aborted { return nil }
AbortIsNoop(completed, aborted) == completed \/ aborted

\* variant of AbortResult: a failed remote abort is returned, the state kept
AbortResult_Propagate(out) ==
    [err |-> out, aborted |-> (out = NoErr)]

\* The tail of Abort: the SDK's error is logged, su.aborted = true, return nil.
AbortResult(out) == [err |-> NoErr, aborted |-> TRUE]

InitStream ==
    /\ FreshUploader
    /\ thr = [t \in Threads |-> IdleThread]
    /\ MultipartIdle
    /\ RetryIdle
    /\ LockIdle
    /\ AnalyzeIdle
    /\ RedisIdle
    /\ MonitorIdle
    /\ NewUploaderIdle

\* What a call that returns now leaves in suRet.
Returned(op, d, err) ==
    [NoCall EXCEPT !.op = op, !.data = d, !.err = err, !.tick = 1 - suRet.tick]

\* WritePart up to the first su.mu.Unlock(): the early returns, or the
\* part number taken under the lock.
WritePartBegin(t, d) ==
    /\ thr[t].pc = "idle"
    /\ LET g == WritePartGate(d, suAborted, suCompleted)
       IN  IF g.go
           THEN /\ suPartNumber < MaxWrites
                /\ suPartNumber' = NextPartNumber(suPartNumber, suParts)
                /\ suEntered' = suEntered + 1
                /\ thr' = [thr EXCEPT ![t] =
                       [IdleThread EXCEPT !.pc = "upload", !.data = d,
                                          !.partNum = suPartNumber',
                                          !.entry = suEntered']]
                /\ UNCHANGED suRet
           ELSE /\ suRet' = Returned("WritePart", d, g.err)
                /\ UNCHANGED <<suPartNumber, suEntered, thr>>
    /\ UNCHANGED <<suParts, suAborted, suCompleted, suUp, suCalls>>
    /\ UNCHANGED <<mpVars, rtVars, lkVars, anVars, rdVars, rmVars, nuVars>>

\* The loop body up to the call: the sleep of a retry, then UploadPart is
\* invoked with the part number taken at the head.
WritePartUpload(t) ==
    /\ thr[t].pc = "upload"
    /\ thr[t].retry < MaxUploadAttempts
    /\ thr' = [thr EXCEPT ![t].pc = "inflight",
                          ![t].issued = @ + 1,
                          ![t].slept =
                              IF thr[t].retry > 0
                              THEN Append(@, RetrySleep(thr[t].retry)) ELSE @]
    /\ suUp' = [suUp EXCEPT ![thr[t].partNum] = @ \cup {thr[t].entry}]
    /\ UNCHANGED <<suParts, suPartNumber, suAborted, suCompleted, suRet,
                   suEntered, suCalls>>
    /\ UNCHANGED <<mpVars, rtVars, lkVars, anVars, rdVars, rmVars, nuVars>>

\* UploadPart returns: an error goes to lastErr and the loop continues, or
\* ends with the wrapped error after the third; a success is recorded in
\* su.parts under the lock.
WritePartReturn(t) ==
    /\ thr[t].pc = "inflight"
    /\ \E out \in SdkOutcomes("UploadPart") :
        IF out # NoErr
        THEN /\ IF thr[t].retry + 1 < MaxUploadAttempts
                THEN /\ thr' = [thr EXCEPT ![t].pc = "upload",
                                           ![t].retry = @ + 1,
                                           ![t].lastErr = out]
                     /\ UNCHANGED <<suRet, suCalls>>
                ELSE /\ thr' = [thr EXCEPT ![t] = IdleThread]
                     /\ suRet' = [Returned("WritePart", thr[t].data,
                                           ErrPartFailed(thr[t].partNum, out))
                                  EXCEPT !.remote = Some(out)]
                     /\ suCalls' = [suCalls EXCEPT !.failedWrites = @ + 1]
             /\ UNCHANGED suParts
        ELSE /\ suParts' = Append(suParts,
                    [PartNumber |-> thr[t].partNum, ETag |-> ETagOf(thr[t].data)])
             /\ thr' = [thr EXCEPT ![t] = IdleThread]
             /\ suRet' = [Returned("WritePart", thr[t].data, NoErr)
                          EXCEPT !.remote = Some(out)]
             /\ UNCHANGED suCalls
    /\ UNCHANGED <<suPartNumber, suAborted, suCompleted, suEntered, suUp>>
    /\ UNCHANGED <<mpVars, rtVars, lkVars, anVars, rdVars, rmVars, nuVars>>

\* Complete, the whole call under the lock.
SuComplete(t) ==
    /\ thr[t].pc = "idle"
    /\ LET g == CompleteGate(suAborted, suCompleted, Len(suParts), suPartNumber)
       IN  IF g.call
           THEN /\ suParts' = SortParts(suParts)
                /\ \E out \in SdkOutcomes("CompleteMultipartUpload") :
                    /\ suCompleted' = CompleteResult(out).completed
                    /\ suCalls' = [suCalls EXCEPT !.completed =
                                      IF out = NoErr THEN @ + 1 ELSE @]
                    /\ suRet' = [Returned("Complete", << >>,
                                          CompleteResult(out).err)
                                 EXCEPT !.sent = Some(suParts'),
                                        !.remote = Some(out)]
           ELSE /\ suRet' = Returned("Complete", << >>, g.err)
                /\ UNCHANGED <<suParts, suCalls, suCompleted>>
    /\ UNCHANGED <<suPartNumber, suAborted, thr, suEntered, suUp>>
    /\ UNCHANGED <<mpVars, rtVars, lkVars, anVars, rdVars, rmVars, nuVars>>

\* Abort, the whole call under the lock; the SDK's error is only logged.
SuAbort(t) ==
    /\ thr[t].pc = "idle"
    /\ IF AbortIsNoop(suCompleted, suAborted)
       THEN /\ suRet' = Returned("Abort", << >>, NoErr)
            /\ UNCHANGED <<suAborted, suCalls>>
       ELSE /\ suCalls' = [suCalls EXCEPT !.aborts = @ + 1]
            /\ \E out \in SdkOutcomes("AbortMultipartUpload") :
                /\ suRet' = [Returned("Abort", << >>, AbortResult(out).err)
                             EXCEPT !.remote = Some(out)]
                /\ suAborted' = AbortResult(out).aborted
    /\ UNCHANGED <<suParts, suPartNumber, suCompleted, thr, suEntered, suUp>>
    /\ UNCHANGED <<mpVars, rtVars, lkVars, anVars, rdVars, rmVars, nuVars>>

\* PartsCount() and TotalPartNumber(): reads under the lock.
PartsCount == Len(suParts)
TotalPartNumber == suPartNumber

NextStream ==
    \/ \E t \in Threads, d \in Chunks : WritePartBegin(t, d)
    \/ \E t \in Threads : WritePartUpload(t)
    \/ \E t \in Threads : WritePartReturn(t)
    \/ \E t \in Threads : SuComplete(t)
    \/ \E t \in Threads : SuAbort(t)

SpecStream == InitStream /\ [][NextStream]_vars

(***************************************************************************)
(* TryCreateLock                                                           *)
(*                                                                         *)
(* The callers of Callers each make one TryCreateLock call on the same     *)
(* key of the same bucket.  The bucket is read-after-write consistent and  *)
(* nothing deletes the object: a step is one SDK call, applied to lkStore  *)
(* at once, or the sleep between the put and the read-back.  The object is *)
(* absent at the start, or holds the content of a lock left by an instance *)
(* outside Callers.  Contents and instance ids are strings over Letters.   *)
(***************************************************************************)
Letters == {"a", "b"}
Contents == UNION {[1..n -> Letters] : n \in 1..MaxContentLen}
InstanceIDs == {<<"a">>, <<"b">>}
ForeignContent == <<"z">>

lockContent(c) == lkArgs[c].lockContent
instanceID(c) == lkArgs[c].instanceID

\* Answers of the SDK that are not obs.ObsError statuses 503 / 403:
\* the 404 of an absent object, a failure below HTTP.
Sdk404(op) == << <<op, "Status=404", "NoSuchKey">> >>
NetErr(op) == << <<op, "dial", "tcp:", "i/o", "timeout">> >>

\* err.(obs.ObsError) and obsErr.StatusCode
IsObsError(err) ==
    /\ err # NoErr
    /\ Len(err[1]) >= 2
    /\ err[1][2] \in {"Status=404", "Status=403", "Status=503"}
StatusCode(err) == err[1][2]

\* What HeadObject / GetObject can answer for the object obj.
HeadOutcomes(obj) ==
    (IF obj = None THEN {Sdk404("HeadObject")} ELSE {NoErr})
        \cup SdkErrors("HeadObject") \cup {NetErr("HeadObject")}
GetOutcomes(obj) ==
    (IF obj = None THEN {Sdk404("GetObject")} ELSE {NoErr})
        \cup SdkErrors("GetObject") \cup {NetErr("GetObject")}

\* variant of ObjectExists: every failed HeadObject means "absent"
ObjectExists_AnyErrorIsAbsent(out) ==
    [exists |-> (out = NoErr), err |-> NoErr]

\* ObjectExists: true,nil / false,nil on a 404 / false,err otherwise
ObjectExists(out) ==
    IF out = NoErr THEN [exists |-> TRUE, err |-> NoErr]
    ELSE IF IsObsError(out) /\ StatusCode(out) = "Status=404"
         THEN [exists |-> FALSE, err |-> NoErr]
    ELSE [exists |-> FALSE,
          err |-> Wrap(<<"obsutil:", "check", "object", "exists", "failed:">>, out)]

\* GetObject wraps what the SDK returns
GetObjectErr(out) ==
    IF out = NoErr THEN NoErr
    ELSE Wrap(<<"obsutil:", "download", "object", "failed:">>, out)

ErrCheckLock(err) == Wrap(<<"obsutil:", "check", "lock", "file", "failed:">>, err)
ErrCreateLock(err) == Wrap(<<"obsutil:", "create", "lock", "file", "failed:">>, err)
ErrReadLock(err) == Wrap(<<"obsutil:", "read", "lock", "file", "failed:">>, err)

\* variant of AfterExists: an existing lock file is overwritten
AfterExists_Overwrite(exists) == "put"

\* if exists { return false, nil }, else on to the put
AfterExists(exists) == IF exists THEN "done" ELSE "put"

\* variant of Owned: the read-back never shows the caller's id
Owned_Never(read, id) == FALSE

\* bytes.Contains(data, []byte(instanceID))
Owned(read, id) == Contains(read, id)

LockReturn(ok, err) == Some([ok |-> ok, err |-> err])

InitLock ==
    /\ lkArgs \in [Callers -> [lockContent : Contents, instanceID : InstanceIDs]]
    /\ lk = [c \in Callers |-> [NoLockCall EXCEPT !.pc = "head"]]
    /\ lkStore \in {None, Some(ForeignContent)}
    /\ MultipartIdle
    /\ RetryIdle
    /\ StreamIdle
    /\ AnalyzeIdle
    /\ RedisIdle
    /\ MonitorIdle
    /\ NewUploaderIdle

\* exists, err := oc.ObjectExists(key) and the two returns that follow it
LockHead(c) ==
    /\ lk[c].pc = "head"
    /\ \E out \in HeadOutcomes(lkStore) :
        LET r == ObjectExists(out)
            began == [lk[c] EXCEPT !.heads = @ + 1, !.out = Some(out),
                         !.after = {d \in Callers : lk[d].pc = "done"}]
        IN  lk' = [lk EXCEPT ![c] =
                IF r.err # NoErr
                THEN [began EXCEPT !.pc = "done",
                          !.ret = LockReturn(FALSE, ErrCheckLock(r.err))]
                ELSE IF AfterExists(r.exists) = "done"
                THEN [began EXCEPT !.pc = "done", !.exists = Some(r.exists),
                          !.ret = LockReturn(FALSE, NoErr)]
                ELSE [began EXCEPT !.pc = "put", !.exists = Some(r.exists)]]
    /\ UNCHANGED <<lkArgs, lkStore>>
    /\ UNCHANGED <<mpVars, rtVars, suVars, anVars, rdVars, rmVars, nuVars>>

\* oc.PutObject(key, bytes.NewReader(lockContent))
LockPut(c) ==
    /\ lk[c].pc = "put"
    /\ \E out \in SdkOutcomes("PutObject") :
        IF out = NoErr
        THEN /\ lkStore' = Some(lockContent(c))
             /\ lk' = [lk EXCEPT ![c].puts = @ + 1, ![c].out = Some(out),
                                 ![c].pc = "sleep"]
        ELSE /\ lk' = [lk EXCEPT ![c].puts = @ + 1, ![c].out = Some(out),
                                 ![c].pc = "done",
                           ![c].ret = LockReturn(FALSE,
                                          ErrCreateLock(PutObjectErr(out)))]
             /\ UNCHANGED lkStore
    /\ UNCHANGED lkArgs
    /\ UNCHANGED <<mpVars, rtVars, suVars, anVars, rdVars, rmVars, nuVars>>

\* time.Sleep(50 * time.Millisecond), in milliseconds
LockSleep(c) ==
    /\ lk[c].pc = "sleep"
    /\ lk' = [lk EXCEPT ![c].slept = 50, ![c].pc = "get"]
    /\ UNCHANGED <<lkArgs, lkStore>>
    /\ UNCHANGED <<mpVars, rtVars, suVars, anVars, rdVars, rmVars, nuVars>>

\* data, err := oc.GetObject(key) and the returns that follow it
LockGet(c) ==
    /\ lk[c].pc = "get"
    /\ \E out \in GetOutcomes(lkStore) :
        lk' = [lk EXCEPT ![c] =
            IF out # NoErr
            THEN [@ EXCEPT !.gets = @ + 1, !.out = Some(out), !.pc = "done",
                      !.ret = LockReturn(FALSE, ErrReadLock(GetObjectErr(out)))]
            ELSE [@ EXCEPT !.gets = @ + 1, !.out = Some(out), !.pc = "done",
                      !.data = lkStore,
                      !.ret = LockReturn(Owned(lkStore[1], instanceID(c)), NoErr)]]
    /\ UNCHANGED <<lkArgs, lkStore>>
    /\ UNCHANGED <<mpVars, rtVars, suVars, anVars, rdVars, rmVars, nuVars>>

NextLock ==
    \/ \E c \in Callers : LockHead(c)
    \/ \E c \in Callers : LockPut(c)
    \/ \E c \in Callers : LockSleep(c)
    \/ \E c \in Callers : LockGet(c)

SpecLock == InitLock /\ [][NextLock]_vars
(***************************************************************************)
(* The claims about PutBytesMultipart (under Spec)                         *)
(***************************************************************************)
\* ceil(a / b), from its definition
CeilDiv(a, b) == CHOOSE n \in 0..a : n * b >= a /\ (n - 1) * b < a

Multipart == Len(data) > pSize
PartNumbers == 1..CeilDiv(Len(data), pSize)
InFlight == {i \in DOMAIN wpc : wpc[i] = "uploading"}
FailedParts == {p \in Parts : upOut[p] # << >> /\ upOut[p][1] # NoErr}
DecisionIssued == calls["Abort"] + calls["Complete"] > 0

\* C1: a multipart run that reaches CompleteMultipartUpload submits exactly the
\* part numbers 1..ceil(len/partSize) in ascending order, each once; part k was
\* uploaded once and carries bytes [(k-1)*partSize, min(k*partSize, len)); the
\* listed parts concatenated in list order are the payload; and when initiate,
\* every part upload and complete succeed, the run does reach complete and the
\* stored object is the payload.
C1_PartsCommittedInOrder ==
    /\ submitted # None =>
        LET list == submitted[1] IN
        /\ Len(list) = CeilDiv(Len(data), pSize)
        /\ \A k \in 1..Len(list) :
            /\ list[k].PartNumber = k
            /\ upCalls[k] = 1
            /\ upSent[k][1].body = SubSeq(data, (k - 1) * pSize + 1, Min(k * pSize, Len(data)))
            /\ list[k].ETag = ETagOf(upSent[k][1].body)
        /\ Assemble(list) = data
    /\ (mpc = "done" /\ Multipart /\ uploadID # None
          /\ \A p \in PartNumbers : upOut[p] = <<NoErr>>)
        => /\ submitted # None
           /\ (lastOut = NoErr => ret = NoErr /\ stored = Some(data))

C1_Witness ==
    /\ mpc = "done"
    /\ ret = NoErr
    /\ stored = Some(data)
    /\ submitted # None
    /\ Len(submitted[1]) = MaxParts
    /\ EffConcurrency(concurrency) > 1

\* C2: when one part's UploadPart returns a non-retryable error and all other
\* parts succeed, the call returns an error, AbortMultipartUpload was invoked
\* exactly once and CompleteMultipartUpload never.
C2_FatalPartAborts ==
    (/\ Multipart
     /\ uploadID # None
     /\ \E p \in PartNumbers :
          /\ upOut[p] = <<SdkFatal("UploadPart")>>
          /\ \A q \in PartNumbers \ {p} : upOut[q] = <<NoErr>>)
    => /\ calls["Complete"] = 0
       /\ calls["Abort"] <= 1
       /\ mpc = "done" => (ret # NoErr /\ calls["Abort"] = 1)

C2_Witness ==
    /\ mpc = "done"
    /\ partCount = MaxParts
    /\ upOut[2] = <<SdkFatal("UploadPart")>>
    /\ \A q \in PartNumbers \ {2} : upOut[q] = <<NoErr>>
    /\ calls["Abort"] = 1
    /\ ret # NoErr

\* C3: the number of UploadPart calls started and not yet returned never
\* exceeds the effective concurrency (the argument, or 5 when it is <= 0).
C3_InFlightBounded ==
    Cardinality(InFlight) <= (IF concurrency <= 0 THEN 5 ELSE concurrency)

C3_Witness ==
    /\ concurrency > 0
    /\ Cardinality(InFlight) = concurrency
    /\ \E i \in DOMAIN wpc : wpc[i] = "acquire"

\* C4: once the abort or complete call has been issued, UploadPart has been
\* invoked for every one of the partCount parts and every part task has
\* finished: none is in flight and none is still to start.
C4_DecisionAfterAllTasks ==
    DecisionIssued =>
        \A p \in PartNumbers : upCalls[p] = 1 /\ wpc[p - 1] = "exited"

C4_Witness ==
    /\ calls["Abort"] = 1
    /\ partCount = MaxParts
    /\ upOut[1] # <<NoErr>>
    /\ \A p \in PartNumbers : upCalls[p] = 1 /\ wpc[p - 1] = "exited"

C6_FailedCompleteNoAbort ==
    (/\ mpc = "done"
     /\ Multipart
     /\ uploadID # None
     /\ \A p \in PartNumbers : upOut[p] = <<NoErr>>
     /\ lastOut # NoErr)
    => /\ calls["Complete"] = 1
       /\ calls["Abort"] = 0
       /\ lastOut \in SdkErrors("Complete")
       /\ Unwrap(ret) = lastOut

C6_Witness ==
    /\ mpc = "done"
    /\ calls["Complete"] = 1
    /\ lastOut = SdkFatal("Complete")
    /\ ret # NoErr

\* C7: when a part upload has failed and AbortMultipartUpload fails too, the
\* returned error wraps a part-upload failure, never the abort failure, and is
\* never nil.
C7_AbortFailureNotEscalated ==
    (/\ mpc = "done"
     /\ FailedParts # {}
     /\ calls["Abort"] = 1
     /\ lastOut \in SdkErrors("Abort"))
    => /\ ret # NoErr
       /\ Unwrap(ret) \in {upOut[p][1] : p \in FailedParts}
       /\ ~Contains(ErrorText(ret), <<"Abort">>)

C7_Witness ==
    /\ mpc = "done"
    /\ FailedParts # {}
    /\ lastOut = SdkTransient("Abort")
    /\ Unwrap(ret) = SdkFatal("UploadPart")

\* C8: for a payload no longer than the effective partSize (the empty payload
\* and len = partSize included) there is exactly one PutObject, of the whole
\* payload, and no initiate, upload-part, complete or abort; on either path
\* what gets stored is the payload.
C8_SmallPayloadDirectPut ==
    /\ Len(data) <= pSize =>
        /\ calls["Initiate"] = 0
        /\ calls["Complete"] = 0
        /\ calls["Abort"] = 0
        /\ \A p \in Parts : upCalls[p] = 0
        /\ calls["PutObject"] <= 1
        /\ mpc = "done" => (calls["PutObject"] = 1 /\ putSent = Some(data))
    /\ stored # None => stored = Some(data)

C8_Witness ==
    /\ mpc = "done"
    /\ partSize > 0
    /\ Len(data) = partSize
    /\ calls["PutObject"] = 1
    /\ stored = Some(data)

C10_Original ==
    rArgs.maxRetries >= 0 => invoked <= rArgs.maxRetries + 1

\* C10 as amended: for every maxRetries >= 1 one call invokes the put
\* operation at most maxRetries + 1 times; for maxRetries <= 0 the default of
\* 3 retries applies and it is invoked at most 4 times.
C10_AttemptsBounded ==
    /\ rArgs.maxRetries >= 1 => invoked <= rArgs.maxRetries + 1
    /\ rArgs.maxRetries <= 0 => invoked <= 4

C10_Witness ==
    /\ rpc = "done"
    /\ rArgs.maxRetries >= 1
    /\ invoked = rArgs.maxRetries + 1
    /\ rRet.err # NoErr
TransientPut == PutObjectErr(SdkTransient("PutObject"))
FatalPut == PutObjectErr(SdkFatal("PutObject"))
\* maxRetries as the call uses it, stated from the documented default
RetriesAllowed == IF rArgs.maxRetries <= 0 THEN 3 ELSE rArgs.maxRetries
Attempts == 1..Len(ops)
Received(k) == ops[k].st = "received"
\* attempt k ended by the timer: the caller has left its select without a result
TimedOut(k) == ops[k].st # "received" /\ (k < Len(ops) \/ rpc \in {"loop", "done"})
Failures == {k \in Attempts : Received(k) /\ ops[k].err # NoErr}

\* C11: when the call has returned, no attempt timed out, every failed attempt
\* failed with a retryable error and there were N < maxRetries of them, then
\* the last attempt succeeded, the call returned its result with a nil error,
\* and the operation was invoked exactly N + 1 times.
C11_SucceedsAfterRetryableFailures ==
    (/\ rpc = "done"
     /\ \A k \in Attempts : Received(k)
     /\ \A k \in Failures : ops[k].err = TransientPut
     /\ Cardinality(Failures) < RetriesAllowed)
    => /\ rRet = [returned |-> TRUE, err |-> NoErr, from |-> Len(ops)]
       /\ ops[Len(ops)].err = NoErr
       /\ Failures = 1..(Len(ops) - 1)
       /\ invoked = Cardinality(Failures) + 1

C11_Witness ==
    /\ rpc = "done"
    /\ \A k \in Attempts : Received(k)
    /\ Failures = {1, 2}
    /\ invoked = 3
    /\ rRet.returned /\ rRet.err = NoErr

\* C12: an attempt that ends with a non-retryable error is the last one: the
\* call has returned exactly that error, with no further attempt and no further
\* sleep; on the first attempt that is exactly one invocation.
C12_NonRetryableStopsAtOnce ==
    \A k \in Attempts :
        (Received(k) /\ ops[k].err = FatalPut)
        => /\ rpc = "done"
           /\ k = Len(ops)
           /\ invoked = k
           /\ Len(sleeps) = k - 1
           /\ rRet = [returned |-> TRUE, err |-> ops[k].err, from |-> k]

C12_Witness ==
    /\ rpc = "done"
    /\ invoked = 1
    /\ Len(ops) = 1 /\ Received(1) /\ ops[1].err = FatalPut
    /\ rRet.err = FatalPut
    /\ sleeps = << >>

\* C13: when all maxRetries + 1 attempts failed with a retryable error or timed
\* out, the returned error is the aggregate error: a layer stating the number of
\* attempts around the last observed cause, not the bare error of the last attempt.
C13_ExhaustionReturnsAggregate ==
    (/\ rpc = "done"
     /\ Len(ops) = RetriesAllowed + 1
     /\ \A k \in Attempts : (Received(k) /\ ops[k].err = TransientPut) \/ TimedOut(k))
    => /\ Len(rRet.err) >= 2
       /\ Unwrap(rRet.err) = lastErr
       /\ Head(rRet.err) = Head(ExhaustedErr(lastErr))

\* C14: a result is only ever received by the select of its own attempt; the
\* result the call returns is that of the last attempt, received in time, never
\* one of an attempt that timed out; and a timeout ends the call only when no
\* attempt remains (it then returns the timeout error), otherwise the next
\* attempt is made.
C14_LateResultDiscarded ==
    /\ \A k \in Attempts : Received(k) => ops[k].by = k
    /\ rRet.returned =>
        IF rRet.from # 0
        THEN /\ rRet.from = Len(ops)
             /\ Received(rRet.from)
             /\ rRet.err = ops[rRet.from].err
             /\ \A k \in 1..(Len(ops) - 1) : TimedOut(k) \/ ops[k].err = TransientPut
        ELSE /\ TimedOut(Len(ops))
             /\ rRet.err = TimeoutErr
             /\ Len(ops) = RetriesAllowed + 1

C14_Witness ==
    /\ rpc = "done"
    /\ Len(ops) = 2
    /\ ops[1].st = "sent" /\ ops[1].err = FatalPut
    /\ rRet = [returned |-> TRUE, err |-> NoErr, from |-> 2]

\* C15: there is no sleep before the first attempt and exactly one before every
\* later attempt; the sleep after the k-th failed attempt is baseDelay * 2^(k-1)
\* (baseDelay is retryDelay, or one second when retryDelay <= 0).
C15_ExponentialBackoff ==
    /\ Len(sleeps) = (IF ops = << >> THEN 0 ELSE Len(ops) - 1)
    /\ \A k \in 1..Len(sleeps) :
        sleeps[k] = (IF rArgs.retryDelay <= 0 THEN 1 ELSE rArgs.retryDelay) * 2^(k - 1)

C15_Witness ==
    /\ rArgs.retryDelay = 2
    /\ sleeps = <<2, 4, 8>>
    /\ Len(ops) = 4

\* C16 as claimed: isRetryable is true of the timeout error the executor raises,
\* and false of nil.
C16_Original ==
    /\ lastErr = TimeoutErr => isRetryable(lastErr)
    /\ ~isRetryable(NoErr)

\* C16 as amended: isRetryable is false of the timeout error the executor
\* raises (its text holds none of the keywords) and false of nil; the executor
\* retries a timed-out attempt without asking isRetryable, so that the timeout
\* error is returned only after the last attempt.
C16_TimeoutNotClassified ==
    /\ lastErr = TimeoutErr => ~isRetryable(lastErr)
    /\ ~isRetryable(NoErr)
    /\ (rRet.returned /\ rRet.err = TimeoutErr) => Len(ops) = RetriesAllowed + 1

C16_Witness ==
    /\ lastErr = TimeoutErr
    /\ rpc = "race"
    /\ attempt = 1
    /\ ~isRetryable(lastErr)

(***************************************************************************)
(* The claims about StreamingUploader (under SpecStream)                   *)
(***************************************************************************)
\* Completed or Aborted: the uploader is no longer Active.
Terminal == suAborted \/ suCompleted

\* This step is the head of a WritePart: it either takes a part number
\* (the goroutine leaves "idle") or returns at once (no goroutine moves).
WritePartDispatched == \E t \in Threads : thr[t].pc = "idle" /\ thr'[t].pc = "upload"
WritePartReturnsAtOnce == thr' = thr /\ suRet' # suRet /\ suRet'.op = "WritePart"
WritePartStarts == WritePartDispatched \/ WritePartReturnsAtOnce

\* This step invokes UploadPart.
UploadPartIssued == \E t \in Threads : thr[t].pc = "upload" /\ thr'[t].pc = "inflight"

\* The step leaves PartsCount() and TotalPartNumber() as they were and
\* sends nothing to the service.
NoWriteEffect ==
    /\ PartsCount' = PartsCount
    /\ TotalPartNumber' = TotalPartNumber
    /\ suParts' = suParts
    /\ suUp' = suUp
    /\ ~UploadPartIssued

\* C17 as stated: a WritePart that starts on a Completed or Aborted uploader
\* returns a non-nil error whatever its data, the empty data included, and
\* changes neither count nor issues an UploadPart.
C17_Original ==
    [][(Terminal /\ WritePartStarts) =>
        /\ WritePartReturnsAtOnce
        /\ suRet'.err # NoErr
        /\ NoWriteEffect]_vars

\* C17, amended: a WritePart that starts on a Completed or Aborted uploader
\* returns at once, with a non-nil error when its data is not empty and with
\* nil when it is empty; in both cases PartsCount() and TotalPartNumber()
\* are unchanged and no UploadPart is issued.
C17_RefusedOnceTerminal ==
    [][(Terminal /\ WritePartStarts) =>
        /\ WritePartReturnsAtOnce
        /\ (suRet'.err = NoErr) <=> (suRet'.data = << >>)
        /\ suRet'.err # NoErr => suRet'.err = (IF suAborted THEN ErrUploadAborted
                                               ELSE ErrUploadCompleted)
        /\ NoWriteEffect]_vars

\* A WritePart with data was refused on an uploader whose Complete succeeded.
C17_Witness ==
    /\ suCompleted
    /\ suCalls.completed = 1
    /\ suRet.op = "WritePart"
    /\ suRet.data # << >>
    /\ suRet.err = ErrUploadCompleted
    /\ PartsCount = TotalPartNumber

\* C18: once the uploader is Completed or Aborted, the recorded part list
\* never changes again, no UploadPart is issued, and aborted / completed
\* never change again.
C18_TerminalIsFrozen ==
    [][Terminal =>
        /\ suParts' = suParts
        /\ ~UploadPartIssued
        /\ suAborted' = suAborted
        /\ suCompleted' = suCompleted]_vars

Busy(t) == thr[t].pc # "idle"

\* C19: the WritePart calls that take a part number get 1, 2, 3, ... in
\* the order they enter the critical section: the number of a call is its
\* rank, no two calls hold the same number, whether in progress or already
\* recorded, and every UploadPart carrying number p comes from the call of
\* rank p, on its first attempt and on its retries alike.
C19_PartNumbersFollowEntryOrder ==
    /\ suPartNumber = suEntered
    /\ \A t \in Threads : Busy(t) =>
        /\ thr[t].partNum = thr[t].entry
        /\ thr[t].partNum \in 1..suEntered
        /\ \A k \in 1..Len(suParts) : suParts[k].PartNumber # thr[t].partNum
    /\ \A t, u \in Threads : (t # u /\ Busy(t) /\ Busy(u)) =>
        thr[t].partNum # thr[u].partNum
    /\ \A j, k \in 1..Len(suParts) : j # k =>
        suParts[j].PartNumber # suParts[k].PartNumber
    /\ \A k \in 1..Len(suParts) : suParts[k].PartNumber \in 1..suEntered
    /\ \A p \in DOMAIN suUp : suUp[p] \subseteq {p}

\* Part 2 is recorded first while the call that entered first is on a retry
\* of part 1, still with number 1.
C19_Witness ==
    /\ suParts # << >>
    /\ suParts[1].PartNumber = 2
    /\ \E t \in Threads :
        /\ thr[t].pc = "inflight"
        /\ thr[t].retry >= 1
        /\ thr[t].entry = 1
        /\ thr[t].partNum = 1
        /\ suUp[1] = {1}

\* This step is a Complete that sent its parts to CompleteMultipartUpload.
CompleteSubmits == suRet' # suRet /\ suRet'.op = "Complete" /\ suRet'.sent # None

\* C20: Complete calls CompleteMultipartUpload only on an Active uploader
\* with at least one part recorded and as many parts recorded as part
\* numbers were ever handed out; the list it submits is 1..n in ascending
\* order; when the service accepts it the uploader is Completed.
C20_CompleteSubmitsAllParts ==
    [][CompleteSubmits =>
        /\ ~suAborted /\ ~suCompleted
        /\ Len(suParts) >= 1
        /\ Len(suParts) = suEntered
        /\ Len(suRet'.sent[1]) = suEntered
        /\ \A k \in 1..Len(suRet'.sent[1]) : suRet'.sent[1][k].PartNumber = k
        /\ suRet'.remote = Some(NoErr) => (suCompleted' /\ ~suAborted')
        /\ suRet'.remote # Some(NoErr) => (~suCompleted' /\ suRet'.err # NoErr)]_vars

\* Complete succeeded with every part handed out, sent as 1..MaxWrites.
C20_Witness ==
    /\ suCompleted
    /\ suRet.op = "Complete"
    /\ suRet.err = NoErr
    /\ suRet.remote = Some(NoErr)
    /\ suRet.sent # None
    /\ Len(suRet.sent[1]) = MaxWrites
    /\ \A k \in 1..MaxWrites : suRet.sent[1][k].PartNumber = k

\* This step is a Complete, or an Abort, that returns.
CompleteReturns == suRet' # suRet /\ suRet'.op = "Complete"
AbortReturns == suRet' # suRet /\ suRet'.op = "Abort"

\* C21: a Complete made after one Complete has succeeded returns nil and
\* calls nothing, and the uploader's state stays as it was; at most one
\* CompleteMultipartUpload ever succeeds.
C21_CompleteIdempotent ==
    /\ [](suCalls.completed <= 1)
    /\ [][(suCompleted /\ CompleteReturns) =>
            /\ suRet'.err = NoErr
            /\ suRet'.sent = None
            /\ suRet'.remote = None
            /\ suCalls' = suCalls
            /\ suParts' = suParts
            /\ suCompleted']_vars

\* A Complete returned nil without a remote call on a Completed uploader.
C21_Witness ==
    /\ suCompleted
    /\ suCalls.completed = 1
    /\ suRet.op = "Complete"
    /\ suRet.err = NoErr
    /\ suRet.sent = None

\* C22: AbortMultipartUpload is issued at most once and only on an Active
\* uploader; an Abort on a Completed or Aborted uploader returns nil, makes
\* no remote call and changes nothing.
C22_AbortAtMostOnce ==
    /\ [](suCalls.aborts <= 1)
    /\ [][(suCalls'.aborts # suCalls.aborts) => ~Terminal]_vars
    /\ [][(Terminal /\ AbortReturns) =>
            /\ suRet'.err = NoErr
            /\ suRet'.remote = None
            /\ suCalls' = suCalls
            /\ suAborted' = suAborted
            /\ suCompleted' = suCompleted
            /\ suParts' = suParts]_vars

\* An Abort returned nil without a remote call on a Completed uploader.
C22_Witness ==
    /\ suCompleted
    /\ ~suAborted
    /\ suCalls.aborts = 0
    /\ suRet.op = "Abort"
    /\ suRet.err = NoErr
    /\ suRet.remote = None

\* This step is the head of a WritePart with data.
WritePartWithDataStarts ==
    \/ WritePartDispatched
    \/ WritePartReturnsAtOnce /\ suRet'.data # << >>

\* C23 as stated: Abort on an Active uploader makes it Aborted and returns
\* nil whatever the remote abort returned, and afterwards every WritePart
\* and every Complete returns an error.
C23_Original ==
    /\ [][(~Terminal /\ AbortReturns) =>
            (suAborted' /\ suRet'.err = NoErr)]_vars
    /\ [][(suAborted /\ WritePartStarts) =>
            (WritePartReturnsAtOnce /\ suRet'.err # NoErr)]_vars
    /\ [][(suAborted /\ CompleteReturns) => suRet'.err # NoErr]_vars

\* C23, amended: Abort on an Active uploader calls AbortMultipartUpload,
\* makes the uploader Aborted and returns nil whatever that call returned;
\* afterwards every Complete and every WritePart with data returns the
\* "upload cancelled" error, while a WritePart without data returns nil.
C23_AbortBestEffort ==
    /\ [][(~Terminal /\ AbortReturns) =>
            /\ suRet'.remote # None
            /\ suCalls'.aborts = suCalls.aborts + 1
            /\ suAborted'
            /\ ~suCompleted'
            /\ suRet'.err = NoErr]_vars
    /\ [][(suAborted /\ WritePartWithDataStarts) =>
            (WritePartReturnsAtOnce /\ suRet'.err = ErrUploadAborted)]_vars
    /\ [][(suAborted /\ WritePartStarts /\ ~WritePartWithDataStarts) =>
            suRet'.err = NoErr]_vars
    /\ [][(suAborted /\ CompleteReturns) =>
            (suRet'.err = ErrUploadAborted /\ suRet'.sent = None)]_vars

\* Abort returned nil and left the uploader Aborted although the remote
\* abort failed.
C23_Witness ==
    /\ suAborted
    /\ suCalls.aborts = 1
    /\ suRet.op = "Abort"
    /\ suRet.err = NoErr
    /\ suRet.remote = Some(SdkFatal("AbortMultipartUpload"))

\* This step is the return of UploadPart to the WritePart of goroutine t:
\* the call goes on to a retry, or returns.
UploadPartFails(t) == thr[t].pc = "inflight" /\ thr'[t].pc = "upload"
WritePartEnds(t) == thr[t].pc = "inflight" /\ thr'[t].pc = "idle"

\* C24: a WritePart invokes UploadPart at most 3 times, after a sleep of
\* 1 second before the second and 2 seconds before the third invocation.
\* When invocation k succeeds the call made exactly k invocations and
\* appends exactly its {part number, etag}; a failed invocation appends
\* nothing, and after the third failure the call returns an error that
\* wraps the third cause.
C24_ThreeAttemptsLinearBackoff ==
    /\ [](\A t \in Threads :
            /\ thr[t].issued <= 3
            /\ thr[t].slept = [i \in 1..(thr[t].issued - 1) |-> i]
            /\ thr[t].pc = "inflight" => thr[t].issued = thr[t].retry + 1)
    /\ [][\A t \in Threads :
            /\ UploadPartFails(t) => (suParts' = suParts /\ thr[t].issued < 3)
            /\ (WritePartEnds(t) /\ suRet'.err = NoErr) =>
                /\ suRet'.remote = Some(NoErr)
                /\ suParts' = Append(suParts,
                       [PartNumber |-> thr[t].partNum,
                        ETag |-> ETagOf(thr[t].data)])
            /\ (WritePartEnds(t) /\ suRet'.err # NoErr) =>
                /\ thr[t].issued = 3
                /\ suRet'.remote \in {Some(e) : e \in SdkErrors("UploadPart")}
                /\ Unwrap(suRet'.err) = suRet'.remote[1]
                /\ suParts' = suParts]_vars

\* The third invocation, made after sleeps of 1 and 2 seconds, is in
\* progress for a call that had two different failures.
C24_Witness ==
    \E t \in Threads :
        /\ thr[t].pc = "inflight"
        /\ thr[t].issued = 3
        /\ thr[t].slept = <<1, 2>>
        /\ thr[t].lastErr # NoErr

(***************************************************************************)
(* The claims about TryCreateLock (under SpecLock)                         *)
(***************************************************************************)
Returns(c, ok, err) == lk[c].pc = "done" /\ lk[c].ret = LockReturn(ok, err)

\* The object was absent at the start: no call writes ForeignContent, and
\* no call that finds it writes at all.
InitiallyAbsent == lkStore # Some(ForeignContent)

\* Both calls are over, b began after a had returned, a's content embeds
\* a's id, and no SDK call of either failed.
Sequential(a, b) ==
    /\ a # b
    /\ lk[a].pc = "done" /\ lk[b].pc = "done"
    /\ a \in lk[b].after
    /\ Contains(lockContent(a), instanceID(a))
    /\ lk[a].ret[1].err = NoErr /\ lk[b].ret[1].err = NoErr

\* C25: of two calls on an absent key made one after the other on a store
\* that answers every call, the first returns (true, nil) and the second
\* (false, nil), without a put.
C25_SecondCallerIsRefused ==
    \A a, b \in Callers : (Sequential(a, b) /\ InitiallyAbsent) =>
        /\ Returns(a, TRUE, NoErr)
        /\ Returns(b, FALSE, NoErr)
        /\ lk[b].puts = 0
        /\ lkStore = Some(lockContent(a))

\* The first caller made its put and read its own content back; the second
\* began afterwards with content of its own and was refused.
C25_Witness ==
    /\ Sequential(1, 2)
    /\ InitiallyAbsent
    /\ instanceID(1) # instanceID(2)
    /\ Contains(lockContent(2), instanceID(2))
    /\ lk[1].puts = 1 /\ lk[1].gets = 1
    /\ Returns(2, FALSE, NoErr)

\* C26: a call whose existence check found the object returns (false, nil)
\* and has made no put and no get; the step in which it finds the object
\* leaves the stored content as it was.
C26_ExistingLockUntouched ==
    /\ [](\A c \in Callers : lk[c].exists = Some(TRUE) =>
            /\ Returns(c, FALSE, NoErr)
            /\ lk[c].puts = 0
            /\ lk[c].gets = 0
            /\ lk[c].slept = 0)
    /\ [][\A c \in Callers :
            (lk[c].exists = None /\ lk'[c].exists = Some(TRUE)) =>
                (lkStore # None /\ lkStore' = lkStore)]_vars

\* Caller 2 found the lock that caller 1 had put and left it alone.
C26_Witness ==
    /\ lk[2].exists = Some(TRUE)
    /\ Returns(2, FALSE, NoErr)
    /\ lk[1].puts = 1
    /\ lkStore = Some(lockContent(1))
    /\ lockContent(1) # lockContent(2)

\* C27: of two concurrent calls on an absent key whose instance ids differ
\* and occur only in their own content, at most one returns (true, nil).
C27_AtMostOneWinner ==
    \A a, b \in Callers :
        ( /\ a # b
          /\ instanceID(a) # instanceID(b)
          /\ ~Contains(lockContent(a), instanceID(b))
          /\ ~Contains(lockContent(b), instanceID(a)) )
        => ~(Returns(a, TRUE, NoErr) /\ Returns(b, TRUE, NoErr))

\* The SDK call that call c made last, and whether it failed; a 404 of the
\* existence check is an answer, not a failure.
LastCall(c) ==
    IF lk[c].gets > 0 THEN "get" ELSE IF lk[c].puts > 0 THEN "put"
    ELSE IF lk[c].heads > 0 THEN "head" ELSE "none"
LastCallFailed(c) ==
    /\ lk[c].out # None
    /\ lk[c].out[1] # NoErr
    /\ ~(LastCall(c) = "head" /\ lk[c].out[1] = Sdk404("HeadObject"))

\* C28: when the existence check fails other than by a 404, or the put
\* fails, or the read-back fails, the call returns (false, err) with err
\* wrapping the SDK's error and makes no further step; a 404 from the
\* existence check means absent and the call goes on to the put.
C28_FailureEndsTheCall ==
    \A c \in Callers :
        /\ LastCallFailed(c) =>
            /\ lk[c].pc = "done"
            /\ lk[c].ret[1].ok = FALSE
            /\ lk[c].ret[1].err # NoErr
            /\ lk[c].ret[1].err # lk[c].out[1]
            /\ <<lk[c].ret[1].err[Len(lk[c].ret[1].err)]>> = lk[c].out[1]
            /\ Head(lk[c].ret[1].err) =
                   (IF LastCall(c) = "head" THEN Head(ErrCheckLock(NoErr))
                    ELSE IF LastCall(c) = "put" THEN Head(ErrCreateLock(NoErr))
                    ELSE Head(ErrReadLock(NoErr)))
            /\ LastCall(c) = "head" => (lk[c].puts = 0 /\ lk[c].gets = 0)
            /\ LastCall(c) = "put" => (lk[c].slept = 0 /\ lk[c].gets = 0)
            /\ lk[c].data = None
        /\ (LastCall(c) = "head" /\ lk[c].out = Some(Sdk404("HeadObject"))) =>
            /\ lk[c].exists = Some(FALSE)
            /\ lk[c].pc = "put"
            /\ lk[c].ret = None
        /\ (lk[c].pc = "done" /\ lk[c].ret[1].err # NoErr) => LastCallFailed(c)

\* One call stopped at a failed existence check, the other at a failed put
\* made after a 404.
C28_Witness ==
    /\ LastCallFailed(1) /\ LastCall(1) = "head"
    /\ lk[1].out = Some(NetErr("HeadObject"))
    /\ LastCallFailed(2) /\ LastCall(2) = "put"
    /\ lk[2].exists = Some(FALSE)
    /\ lk[2].out = Some(SdkFatal("PutObject"))

(***************************************************************************)
(* The sequencing contract of PutBytesMultipart (under Spec)               *)
(***************************************************************************)
\* C29: in a run on a payload longer than partSize whose
\* InitiateMultipartUpload succeeded, every UploadPart carries the upload
\* id it returned; no CompleteMultipartUpload or AbortMultipartUpload is
\* made before the run decides, and the run ends having made exactly one
\* of them, for that upload id.
C29_SequencingContract ==
    (Multipart /\ uploadID # None) =>
        /\ calls["Initiate"] = 1
        /\ \A p \in Parts : upSent[p] # None => upSent[p][1].id = uploadID
        /\ \A k \in 1..Len(decisions) : decisions[k].id = uploadID
        /\ Len(decisions) <= 1
        /\ Len(decisions) = calls["Complete"] + calls["Abort"]
        /\ mpc # "done" => decisions = << >>
        /\ mpc = "done" =>
            /\ Len(decisions) = 1
            /\ decisions[1].op \in {"Complete", "Abort"}

\* A run that uploaded every part under the id it was given and ended with
\* a CompleteMultipartUpload that failed: no abort followed.
C29_Witness ==
    /\ Multipart
    /\ uploadID = Some("upload-b")
    /\ mpc = "done"
    /\ \A p \in PartNumbers : upSent[p] # None /\ upSent[p][1].id = uploadID
    /\ decisions = <<[op |-> "Complete", id |-> uploadID]>>
    /\ lastOut # NoErr

(***************************************************************************)
(* PutStringWithRetry (under SpecRetry)                                    *)
(***************************************************************************)
\* C30: a PutStringWithRetry call with retryDelay <= 0 waits 2 seconds
\* before its first retry, 4 before the next, and so on; with
\* maxRetries <= 0 it makes up to 3 retries.
C30_StringRetryDefaults ==
    rArgs.entry = "PutStringWithRetry" =>
        /\ rArgs.retryDelay <= 0 =>
            \A k \in 1..Len(sleeps) : sleeps[k] = 2 * 2^(k - 1)
        /\ rArgs.maxRetries <= 0 => Len(sleeps) <= 3 /\ invoked <= 4

(***************************************************************************)
(* StreamingUploader: claims on sessions with parts missing                *)
(***************************************************************************)

\* Some WritePart still holds a part number it has not recorded, or one
\* gave up after its third attempt.
PartsMissing == suCalls.failedWrites > 0 \/ \E t \in Threads : Busy(t)

\* C33: while a WritePart is in flight, and for ever after a WritePart gave
\* up after its last attempt, the uploader is not Completed, and a Complete
\* returns an error without calling CompleteMultipartUpload; so after a
\* failed WritePart the only terminal state still reachable is Aborted.
C33_NeverCommitsIncomplete ==
    /\ [](PartsMissing => ~suCompleted)
    /\ [][CompleteReturns /\ PartsMissing =>
            /\ suRet'.err # NoErr
            /\ suRet'.sent = None
            /\ suRet'.remote = None
            /\ suCalls'.completed = suCalls.completed
            /\ ~suCompleted']_vars

C33_Witness ==
    /\ suCalls.failedWrites = 1
    /\ Len(suParts) = 1
    /\ suPartNumber = 2
    /\ suRet.op = "Complete"
    /\ suRet.err = ErrPartsIncomplete(2, 1)

\* C36: in every state PartsCount() <= TotalPartNumber(), every recorded
\* part number lies in 1..TotalPartNumber(), no part number is recorded
\* twice, and TotalPartNumber() never decreases.
C36_CountersAgree ==
    /\ [](/\ PartsCount <= TotalPartNumber
          /\ \A k \in 1..Len(suParts) :
                suParts[k].PartNumber \in 1..TotalPartNumber
          /\ \A j, k \in 1..Len(suParts) :
                j # k => suParts[j].PartNumber # suParts[k].PartNumber)
    /\ [][TotalPartNumber' >= TotalPartNumber]_vars

\* the second part was recorded before the first
C36_Witness ==
    /\ PartsCount = 2
    /\ TotalPartNumber = 2
    /\ suParts[1].PartNumber = 2
    /\ suParts[2].PartNumber = 1

\* What the next Complete and the next Abort would do.
NextComplete == CompleteGate(suAborted, suCompleted, Len(suParts), suPartNumber)
NextAbortIsNoop == AbortIsNoop(suCompleted, suAborted)

\* C37: a WritePart with empty data returns nil at once: it takes no part
\* number, never reaches UploadPart, leaves the part list and the flags as
\* they were, and so leaves the outcome of a later Complete as it was.
C37_EmptyWriteIsNoop ==
    /\ [](\A t \in Threads : Busy(t) => thr[t].data # << >>)
    /\ [][WritePartReturnsAtOnce /\ suRet'.data = << >> =>
            /\ suRet'.err = NoErr
            /\ NoWriteEffect
            /\ suEntered' = suEntered
            /\ suAborted' = suAborted
            /\ suCompleted' = suCompleted
            /\ NextComplete' = NextComplete]_vars

\* an empty WritePart returned while a part was recorded and Complete was
\* ready to go
C37_Witness ==
    /\ suRet.op = "WritePart"
    /\ suRet.data = << >>
    /\ suRet.err = NoErr
    /\ PartsCount = 1
    /\ NextComplete.call

PartSet(ps) == {ps[k] : k \in 1..Len(ps)}

\* C38: when CompleteMultipartUpload fails inside Complete, the call
\* returns an error that wraps the cause, the uploader stays Active with
\* the same recorded parts and the same number of part numbers handed out,
\* no abort is issued, and the next Complete would call the service again
\* and the next Abort would abort.
C38_FailedCompleteStaysActive ==
    [][CompleteSubmits /\ suRet'.remote # Some(NoErr) =>
        /\ suRet'.err # NoErr
        /\ Some(Unwrap(suRet'.err)) = suRet'.remote
        /\ ~suCompleted' /\ ~suAborted'
        /\ PartSet(suParts') = PartSet(suParts)
        /\ Len(suParts') = Len(suParts)
        /\ suPartNumber' = suPartNumber
        /\ suCalls'.aborts = suCalls.aborts
        /\ NextComplete'.call
        /\ ~NextAbortIsNoop']_vars

C38_Witness ==
    /\ suRet.op = "Complete"
    /\ suRet.remote = Some(SdkTransient("CompleteMultipartUpload"))
    /\ suRet.err = ErrCompleteFailed(SdkTransient("CompleteMultipartUpload"))
    /\ ~Terminal
    /\ PartsCount = 2

(***************************************************************************)
(* monitor: filterRecords and AnalyzeRecords                               *)
(*                                                                         *)
(* Both are functions of their arguments.  A time.Time is the hour of its  *)
(* instant, 0 for the zero time.  An EndedAt string is its words: a time   *)
(* of day and a zone, or something time.Parse refuses.  Of a record only   *)
(* NumCPU, EndedAt and SampleCount are kept; the minima, maxima and        *)
(* weighted averages of analyzeOneGroup read other fields and feed nothing *)
(* into the grouping, the order or the two counts.  Ranging over the map   *)
(* grouped visits its keys in an order the runtime picks.                  *)
(***************************************************************************)
ClockHours == ("T02:00:00" :> 2) @@ ("T03:00:00" :> 3)
ZoneHours == ("Z" :> 0) @@ ("+01:00" :> 1)

\* time.Parse(time.RFC3339, s): the instant, or an error
ParseRFC3339(s) ==
    IF Len(s) = 2 /\ s[1] \in DOMAIN ClockHours /\ s[2] \in DOMAIN ZoneHours
    THEN [err |-> FALSE, t |-> ClockHours[s[1]] - ZoneHours[s[2]]]
    ELSE [err |-> TRUE, t |-> 0]

EndedAts ==
    { <<"yesterday">>, <<"T02:00:00", "Z">>, <<"T03:00:00", "+01:00">>,
      <<"T03:00:00", "Z">> }

SummaryRecords == [NumCPU : {1, 2}, EndedAt : EndedAts, SampleCount : {1, 2}]

RecordLists ==
    {NilSlice} \cup
    {Slice(s) : s \in UNION {[1..n -> SummaryRecords] : n \in 0..MaxRecords}}

AnalyzeOptionsValues == {None, Some([Since |-> 0]), Some([Since |-> 2])}

\* t.IsZero()
IsZero(t) == t = 0

\* variant of After: a record ended exactly at Since passes
After_OrEqual(t, u) == t >= u

\* t.After(u)
After(t, u) == t > u

\* the loop of filterRecords over the records left, filtered so far
RECURSIVE filterLoop(_, _, _)
filterLoop(rs, since, filtered) ==
    IF rs = << >> THEN filtered
    ELSE LET r == Head(rs)
             p == ParseRFC3339(r.EndedAt)
         IN  IF p.err THEN filterLoop(Tail(rs), since, filtered)
             ELSE IF After(p.t, since)
                  THEN filterLoop(Tail(rs), since, Slice(Append(filtered.items, r)))
                  ELSE filterLoop(Tail(rs), since, filtered)

filterRecords(records, opts) ==
    IF opts = None \/ IsZero(opts[1].Since) THEN records
    ELSE filterLoop(records.items, opts[1].Since, NilSlice)

\* grouped[r.NumCPU] = append(grouped[r.NumCPU], r), for each r in order
groupByCPU(rs) ==
    [cpu \in {rs[k].NumCPU : k \in 1..Len(rs)} |->
        SelectSeq(rs, LAMBDA r : r.NumCPU = cpu)]

RECURSIVE InsertInt(_, _)
InsertInt(x, s) ==
    IF s = << >> THEN <<x>>
    ELSE IF x < Head(s) THEN <<x>> \o s
    ELSE <<Head(s)>> \o InsertInt(x, Tail(s))

\* variant of SortInts: the keys stay in the order the map gave them
SortInts_Unsorted(s) == s

\* sort.Ints(cpuCounts)
RECURSIVE SortInts(_)
SortInts(s) ==
    IF s = << >> THEN << >>
    ELSE InsertInt(s[Len(s)], SortInts(SubSeq(s, 1, Len(s) - 1)))

RECURSIVE SumSamples(_)
SumSamples(rs) ==
    IF rs = << >> THEN 0 ELSE Head(rs).SampleCount + SumSamples(Tail(rs))

analyzeOneGroup(cpu, rs) ==
    [NumCPU |-> cpu, RecordCount |-> Len(rs), TotalSamples |-> SumSamples(rs)]

\* the orders in which a range over a map with these keys can visit them
RangeOrders(keys) ==
    {o \in [1..Cardinality(keys) -> keys] : {o[k] : k \in DOMAIN o} = keys}

\* order is the order in which the range over grouped visited the keys
analyzeGroups(grouped, order) ==
    LET cpuCounts == SortInts(order)
    IN  Slice([k \in 1..Len(cpuCounts) |->
                  analyzeOneGroup(cpuCounts[k], grouped[cpuCounts[k]])])

\* the banner line, then the first line of each group
formatReport(res) ==
    << <<"resource", "analysis">> >> \o
    [k \in 1..Len(res.items) |->
        <<"CPU", "cores:", res.items[k].NumCPU,
          "records:", res.items[k].RecordCount,
          "samples:", res.items[k].TotalSamples>>]

ReportNoRecords == << <<"no", "records">> >>
ReportNoneLeft == << <<"no", "valid", "records", "after", "filtering">> >>

InitAnalyze ==
    /\ anRecords \in RecordLists
    /\ anOpts \in AnalyzeOptionsValues
    /\ anRet = NoAnalysis
    /\ MultipartIdle
    /\ RetryIdle
    /\ StreamIdle
    /\ LockIdle
    /\ RedisIdle
    /\ MonitorIdle
    /\ NewUploaderIdle

CallFilterRecords ==
    /\ anRet.fn = "none"
    /\ anRet' = [NoAnalysis EXCEPT !.fn = "filterRecords",
                                   !.filtered = filterRecords(anRecords, anOpts)]
    /\ UNCHANGED <<anRecords, anOpts>>
    /\ UNCHANGED <<mpVars, rtVars, suVars, lkVars, rdVars, rmVars, nuVars>>

CallAnalyzeRecords ==
    /\ anRet.fn = "none"
    /\ IF Len(anRecords.items) = 0
       THEN anRet' = [NoAnalysis EXCEPT !.fn = "AnalyzeRecords",
                                        !.report = ReportNoRecords]
       ELSE LET filtered == filterRecords(anRecords, anOpts)
            IN  IF Len(filtered.items) = 0
                THEN anRet' = [NoAnalysis EXCEPT !.fn = "AnalyzeRecords",
                                                 !.filtered = filtered,
                                                 !.report = ReportNoneLeft]
                ELSE LET grouped == groupByCPU(filtered.items)
                     IN  \E order \in RangeOrders(DOMAIN grouped) :
                            LET res == analyzeGroups(grouped, order)
                            IN  anRet' = [fn |-> "AnalyzeRecords",
                                          filtered |-> filtered,
                                          results |-> res,
                                          report |-> formatReport(res)]
    /\ UNCHANGED <<anRecords, anOpts>>
    /\ UNCHANGED <<mpVars, rtVars, suVars, lkVars, rdVars, rmVars, nuVars>>

NextAnalyze == CallFilterRecords \/ CallAnalyzeRecords

SpecAnalyze == InitAnalyze /\ [][NextAnalyze]_vars

(***************************************************************************)
(* The claims about filterRecords and AnalyzeRecords (under SpecAnalyze)   *)
(***************************************************************************)

\* The record's EndedAt is a time, and one strictly after since.
EndedAfter(r, since) ==
    /\ ~ParseRFC3339(r.EndedAt).err
    /\ ParseRFC3339(r.EndedAt).t > since

\* The records of the argument that pass the filter of the argument opts.
Passing ==
    IF anOpts = None THEN anRecords.items
    ELSE IF anOpts[1].Since = 0 THEN anRecords.items
    ELSE SelectSeq(anRecords.items, LAMBDA r : EndedAfter(r, anOpts[1].Since))

\* C32: filterRecords returns its argument as it is when opts is nil or
\* Since is the zero time; otherwise it returns, in their original order,
\* exactly the records whose EndedAt parses and is strictly after Since.
C32_FilterKeepsLaterRecords ==
    anRet.fn = "filterRecords" =>
        /\ anRet.filtered.items = Passing
        /\ (anOpts = None \/ anOpts[1].Since = 0) => anRet.filtered = anRecords

\* three records in, the unparsable one and the one ending exactly at Since
\* (written in another zone) dropped, one kept
C32_Witness ==
    /\ anRet.fn = "filterRecords"
    /\ anOpts = Some([Since |-> 2])
    /\ Len(anRecords.items) = 3
    /\ anRecords.items[1].EndedAt = <<"yesterday">>
    /\ anRecords.items[2].EndedAt = <<"T03:00:00", "+01:00">>
    /\ anRecords.items[3].EndedAt = <<"T03:00:00", "Z">>
    /\ anRet.filtered.items = <<anRecords.items[3]>>

GroupOf(cpu) == SelectSeq(Passing, LAMBDA r : r.NumCPU = cpu)

RECURSIVE SumRecordCounts(_)
SumRecordCounts(res) ==
    IF res = << >> THEN 0 ELSE Head(res).RecordCount + SumRecordCounts(Tail(res))

\* C31: AnalyzeRecords on a non-empty list returns one result per distinct
\* NumCPU among the records passing the filter, in strictly ascending order
\* of NumCPU; RecordCount is the size of the group and TotalSamples the sum
\* of its SampleCount, and the RecordCounts add up to the number of records
\* passing; on an empty or nil list it returns nil and the report "no
\* records".
C31_OneResultPerCPU ==
    anRet.fn = "AnalyzeRecords" =>
        LET res == anRet.results.items
        IN  IF Len(anRecords.items) = 0
            THEN anRet.results = NilSlice /\ anRet.report = ReportNoRecords
            ELSE /\ {res[k].NumCPU : k \in 1..Len(res)} =
                        {Passing[k].NumCPU : k \in 1..Len(Passing)}
                 /\ \A j, k \in 1..Len(res) : j < k => res[j].NumCPU < res[k].NumCPU
                 /\ \A k \in 1..Len(res) :
                        /\ res[k].RecordCount = Len(GroupOf(res[k].NumCPU))
                        /\ res[k].TotalSamples = SumSamples(GroupOf(res[k].NumCPU))
                 /\ SumRecordCounts(res) = Len(Passing)

\* records of 2 cores before one of 1 core: two results, 1 core first
C31_Witness ==
    /\ anRet.fn = "AnalyzeRecords"
    /\ Len(anRecords.items) = 3
    /\ anOpts = None
    /\ anRecords.items[1].NumCPU = 2
    /\ anRecords.items[2].NumCPU = 1
    /\ anRecords.items[3].NumCPU = 2
    /\ Len(anRet.results.items) = 2
    /\ anRet.results.items[1].NumCPU = 1
    /\ anRet.results.items[2].RecordCount = 2

\* the empty list
C31_WitnessEmpty ==
    /\ anRet.fn = "AnalyzeRecords"
    /\ anRecords = Slice(<< >>)
    /\ anRet.report = ReportNoRecords

(***************************************************************************)
(* RedisClient.ExecuteWithRetry                                            *)
(*                                                                         *)
(* One call.  The operation and the redis server are the environment: the  *)
(* operation returns a result, a connection error or another error, and a  *)
(* Reconnect sees any number of its dials fail.  A step is one invocation  *)
(* of the operation with the tests that follow it, or one Reconnect with   *)
(* what follows it up to the next invocation or the return.  rdTrace lists *)
(* the calls to the operation and to Reconnect, each with what it          *)
(* returned.                                                               *)
(***************************************************************************)
DefaultRedisRetries == 3
DefaultRedisDelay == 1

EffRedisRetries(n) == IF n <= 0 THEN DefaultRedisRetries ELSE n
EffRedisDelay(d) == IF d <= 0 THEN DefaultRedisDelay ELSE d

connectionKeywords ==
    { <<"connection">>, <<"timeout">>, <<"eof">>, <<"broken", "pipe">>,
      <<"network">>, <<"dial">>, <<"i/o", "timeout">>,
      <<"connection", "refused">>, <<"connection", "reset">>,
      <<"no", "connection">>, <<"connection", "closed">> }

\* strings.ToLower, on the words that occur
LowerWord ==
    ("EOF" :> "eof") @@ ("WRONGTYPE" :> "wrongtype") @@ ("Operation" :> "operation")
ToLower(s) ==
    [k \in 1..Len(s) |-> IF s[k] \in DOMAIN LowerWord THEN LowerWord[s[k]] ELSE s[k]]

isConnectionError(err) ==
    /\ err # NoErr
    /\ \E kw \in connectionKeywords : Contains(ToLower(ErrorText(err)), kw)

ErrEOF == << <<"EOF">> >>
ErrConnReset == << <<"read", "tcp:", "connection", "reset", "by", "peer">> >>
ErrWrongType == << <<"WRONGTYPE", "Operation", "against", "a", "key">> >>
ErrDial == << <<"redis:", "connect", "to", "addr", "failed:">>, <<"dial", "tcp:", "refused">> >>
ErrRedisNoParams == << <<"redis:", "no", "params,", "cannot", "reconnect">> >>

\* what operation() can return: (result, error)
OperationOutcomes ==
    { [result |-> Some("value"), err |-> NoErr],
      [result |-> None, err |-> ErrEOF],
      [result |-> None, err |-> ErrConnReset],
      [result |-> Some("partial"), err |-> ErrWrongType] }

ErrReconnectFailed(n, err) ==
    Wrap(<<"redis:", "reconnect", "failed", "(tried", n, "times):">>, err)
\* "%w (reconnect: %v)": the operation's error is the one wrapped
ErrOperationAndReconnect(err, reconnErr) ==
    Wrap(<<"redis:", "operation", "failed", "and", "reconnect", "failed:", "%w",
           "(reconnect:">> \o ErrorText(reconnErr) \o <<")">>, err)
ErrRetriesExhausted(n, err) ==
    Wrap(<<"redis:", "operation", "failed", "(tried", n, "times):">>, err)

\* Reconnect(maxRetries, retryDelay) when the first fails dials fail: the
\* error returned, rc.client afterwards, the dials made and the sleeps taken.
Reconnect(params, client, maxR, delay, fails) ==
    LET n == EffRedisRetries(maxR)
        d == EffRedisDelay(delay)
    IN  IF ~params
        THEN [err |-> ErrRedisNoParams, client |-> client, dials |-> 0,
              sleeps |-> << >>]
        ELSE IF fails < n
        THEN [err |-> NoErr, client |-> "new", dials |-> fails + 1,
              sleeps |-> [k \in 1..fails |-> d]]
        ELSE [err |-> ErrReconnectFailed(n, ErrDial), client |-> "nil",
              dials |-> n, sleeps |-> [k \in 1..(n - 1) |-> d]]

\* variant of ReconnectFailed: the loop goes on after a failed Reconnect
ReconnectFailed_Ignore(reconnErr) == FALSE

\* if reconnErr := rc.Reconnect(...); reconnErr != nil
ReconnectFailed(reconnErr) == reconnErr # NoErr

rdMaxRetries == EffRedisRetries(rdArgs.maxRetries)
rdRetryDelay == EffRedisDelay(rdArgs.retryDelay)

InitRedis ==
    /\ rdArgs \in [maxRetries : -1..MaxRetriesArg, retryDelay : 0..MaxDelayArg]
    /\ rdParams \in BOOLEAN
    /\ rdClient = "old"
    /\ rdPc = "loop"
    /\ rdI = 0
    /\ rdLastErr = NoErr
    /\ rdTrace = << >>
    /\ rdSleeps = << >>
    /\ rdRet = [result |-> None, err |-> NoErr]
    /\ MultipartIdle
    /\ RetryIdle
    /\ StreamIdle
    /\ LockIdle
    /\ AnalyzeIdle
    /\ MonitorIdle
    /\ NewUploaderIdle

\* result, err := operation(), and the two tests on err
RedisInvoke ==
    /\ rdPc = "loop"
    /\ rdI < rdMaxRetries
    /\ \E out \in OperationOutcomes :
        /\ rdTrace' = Append(rdTrace, [call |-> "operation", result |-> out.result,
                                       err |-> out.err])
        /\ IF out.err = NoErr
           THEN /\ rdRet' = [result |-> out.result, err |-> NoErr]
                /\ rdPc' = "done"
                /\ UNCHANGED rdLastErr
           ELSE IF ~isConnectionError(out.err)
           THEN /\ rdRet' = [result |-> None, err |-> out.err]
                /\ rdPc' = "done"
                /\ UNCHANGED rdLastErr
           ELSE /\ rdLastErr' = out.err
                /\ rdPc' = "reconnect"
                /\ UNCHANGED rdRet
    /\ UNCHANGED <<rdArgs, rdParams, rdClient, rdI, rdSleeps>>
    /\ UNCHANGED <<mpVars, rtVars, suVars, lkVars, anVars, rmVars, nuVars>>

\* rc.Reconnect(maxRetries, retryDelay), the test on its error, the sleep,
\* i++ and the loop test; the return after the loop when i reached maxRetries
RedisReconnect ==
    /\ rdPc = "reconnect"
    /\ \E fails \in 0..rdMaxRetries :
        LET rr == Reconnect(rdParams, rdClient, rdMaxRetries, rdRetryDelay, fails)
        IN  /\ rdTrace' = Append(rdTrace, [call |-> "Reconnect", result |-> None,
                                           err |-> rr.err])
            /\ rdClient' = rr.client
            /\ IF ReconnectFailed(rr.err)
               THEN /\ rdRet' = [result |-> None,
                                 err |-> ErrOperationAndReconnect(rdLastErr, rr.err)]
                    /\ rdPc' = "done"
                    /\ rdSleeps' = rdSleeps \o rr.sleeps
                    /\ UNCHANGED rdI
               ELSE /\ rdSleeps' = rdSleeps \o rr.sleeps \o
                            (IF rdI < rdMaxRetries - 1 THEN <<rdRetryDelay>> ELSE << >>)
                    /\ rdI' = rdI + 1
                    /\ IF rdI + 1 < rdMaxRetries
                       THEN rdPc' = "loop" /\ UNCHANGED rdRet
                       ELSE /\ rdPc' = "done"
                            /\ rdRet' = [result |-> None,
                                         err |-> ErrRetriesExhausted(rdMaxRetries, rdLastErr)]
    /\ UNCHANGED <<rdArgs, rdParams, rdLastErr>>
    /\ UNCHANGED <<mpVars, rtVars, suVars, lkVars, anVars, rmVars, nuVars>>

NextRedis == RedisInvoke \/ RedisReconnect

SpecRedis == InitRedis /\ [][NextRedis]_vars

(***************************************************************************)
(* The claim about ExecuteWithRetry (under SpecRedis)                      *)
(***************************************************************************)
OperationCalls == Len(SelectSeq(rdTrace, LAMBDA e : e.call = "operation"))

\* The entry k of the trace is the last thing the call did: it has returned.
EndsTheCall(k) == k = Len(rdTrace) /\ rdPc = "done"

\* C34: one call invokes the operation at most maxRetries times, 3 times
\* when maxRetries <= 0; a success is returned at once; an error that is
\* not a connection error is returned as it is, at once, with no Reconnect
\* and no further invocation; every connection error is followed by a
\* Reconnect, and a Reconnect is made only then; a failed Reconnect ends
\* the call with an error, with no further invocation.
C34_RetryOnConnectionErrors ==
    /\ OperationCalls <= (IF rdArgs.maxRetries <= 0 THEN 3 ELSE rdArgs.maxRetries)
    /\ \A k \in 1..Len(rdTrace) :
        LET e == rdTrace[k]
        IN  /\ (e.call = "operation" /\ e.err = NoErr) =>
                    EndsTheCall(k) /\ rdRet = [result |-> e.result, err |-> NoErr]
            /\ (e.call = "operation" /\ e.err # NoErr /\ ~isConnectionError(e.err)) =>
                    EndsTheCall(k) /\ rdRet.err = e.err
            /\ (e.call = "operation" /\ isConnectionError(e.err)) =>
                    IF k = Len(rdTrace) THEN rdPc = "reconnect"
                    ELSE rdTrace[k + 1].call = "Reconnect"
            /\ e.call = "Reconnect" =>
                    /\ k > 1
                    /\ rdTrace[k - 1].call = "operation"
                    /\ isConnectionError(rdTrace[k - 1].err)
                    /\ e.err # NoErr => EndsTheCall(k) /\ rdRet.err # NoErr

\* the default budget used up: three connection errors, three reconnects
C34_Witness ==
    /\ rdArgs.maxRetries = 0
    /\ rdPc = "done"
    /\ OperationCalls = 3
    /\ Len(rdTrace) = 6
    /\ rdRet.err = ErrRetriesExhausted(3, ErrEOF)

\* a failed Reconnect after the first connection error
C34_WitnessReconnectFails ==
    /\ rdPc = "done"
    /\ Len(rdTrace) = 2
    /\ rdTrace[2].call = "Reconnect"
    /\ rdTrace[2].err # NoErr
    /\ rdArgs.maxRetries = 2

(***************************************************************************)
(* ResourceMonitor: Start, Stop and loop                                   *)
(*                                                                         *)
(* One monitor, shared by the goroutines in MonCallers; each makes up to   *)
(* MaxMonCalls calls, one at a time, each a Start or a Stop.  m.mu is      *)
(* modelled by atomicity: a step is one critical section, or what a        *)
(* goroutine does between two of them.  A loop goroutine reads m.stopChan  *)
(* without holding m.mu each time it enters its select; it then waits on   *)
(* the channel it read (seen) until the ticker fires.  That read races     *)
(* with the write at the end of Stop, so it yields the value the field     *)
(* holds or the one the goroutine read before.  Closing a closed channel   *)
(* panics, which ends the process.                                         *)
(***************************************************************************)
InitMonitor ==
    /\ FreshMonitor
    /\ rmCall = [c \in MonCallers |-> NoMonCall]
    /\ MultipartIdle
    /\ RetryIdle
    /\ StreamIdle
    /\ LockIdle
    /\ AnalyzeIdle
    /\ RedisIdle
    /\ NewUploaderIdle

MayCall(c) == ~rmPanic /\ rmCall[c].pc = "idle" /\ rmCall[c].made < MaxMonCalls

\* Start, its critical section: return when running, else running = true
StartBegin(c) ==
    /\ MayCall(c)
    /\ IF rmRunning
       THEN /\ rmCall' = [rmCall EXCEPT ![c].made = @ + 1]
            /\ UNCHANGED rmRunning
       ELSE /\ rmRunning' = TRUE
            /\ rmCall' = [rmCall EXCEPT ![c].pc = "reset", ![c].made = @ + 1]
    /\ UNCHANGED <<rmStopChan, rmChans, rmClosed, rmWg, rmLoops, rmHistory, rmPanic>>
    /\ UNCHANGED <<mpVars, rtVars, suVars, lkVars, anVars, rdVars, nuVars>>

\* m.history = m.history[:0], under historyMu
StartReset(c) ==
    /\ ~rmPanic
    /\ rmCall[c].pc = "reset"
    /\ rmHistory' = 0
    /\ rmCall' = [rmCall EXCEPT ![c].pc = "spawn"]
    /\ UNCHANGED <<rmRunning, rmStopChan, rmChans, rmClosed, rmWg, rmLoops, rmPanic>>
    /\ UNCHANGED <<mpVars, rtVars, suVars, lkVars, anVars, rdVars, nuVars>>

\* m.wg.Add(1); go m.loop(); return
StartSpawn(c) ==
    /\ ~rmPanic
    /\ rmCall[c].pc = "spawn"
    /\ rmWg' = rmWg + 1
    /\ rmLoops' = Append(rmLoops, [pc |-> "start", seen |-> 0])
    /\ rmCall' = [rmCall EXCEPT ![c].pc = "idle"]
    /\ UNCHANGED <<rmRunning, rmStopChan, rmChans, rmClosed, rmHistory, rmPanic>>
    /\ UNCHANGED <<mpVars, rtVars, suVars, lkVars, anVars, rdVars, nuVars>>

\* Stop, its first critical section: return when not running, else
\* running = false and close(m.stopChan)
StopBegin(c) ==
    /\ MayCall(c)
    /\ IF ~rmRunning
       THEN /\ rmCall' = [rmCall EXCEPT ![c].made = @ + 1]
            /\ UNCHANGED <<rmRunning, rmClosed, rmPanic>>
       ELSE /\ rmRunning' = FALSE
            /\ rmCall' = [rmCall EXCEPT ![c].pc = "wait", ![c].made = @ + 1]
            /\ IF rmStopChan \in rmClosed
               THEN rmPanic' = TRUE /\ UNCHANGED rmClosed
               ELSE rmClosed' = rmClosed \cup {rmStopChan} /\ UNCHANGED rmPanic
    /\ UNCHANGED <<rmStopChan, rmChans, rmWg, rmLoops, rmHistory>>
    /\ UNCHANGED <<mpVars, rtVars, suVars, lkVars, anVars, rdVars, nuVars>>

\* m.wg.Wait() returns; m.logAndSaveSummary()
StopWait(c) ==
    /\ ~rmPanic
    /\ rmCall[c].pc = "wait"
    /\ rmWg = 0
    /\ rmCall' = [rmCall EXCEPT ![c].pc = "renew"]
    /\ UNCHANGED <<rmRunning, rmStopChan, rmChans, rmClosed, rmWg, rmLoops,
                   rmHistory, rmPanic>>
    /\ UNCHANGED <<mpVars, rtVars, suVars, lkVars, anVars, rdVars, nuVars>>

\* Stop, its last critical section: m.stopChan = make(chan struct{}); return
StopRenew(c) ==
    /\ ~rmPanic
    /\ rmCall[c].pc = "renew"
    /\ rmChans' = rmChans + 1
    /\ rmStopChan' = rmChans + 1
    /\ rmCall' = [rmCall EXCEPT ![c].pc = "idle"]
    /\ UNCHANGED <<rmRunning, rmClosed, rmWg, rmLoops, rmHistory, rmPanic>>
    /\ UNCHANGED <<mpVars, rtVars, suVars, lkVars, anVars, rdVars, nuVars>>

Loops == DOMAIN rmLoops

\* loop starts: the ticker is made and the select entered for the first time
LoopEnter(l) ==
    /\ ~rmPanic
    /\ rmLoops[l].pc = "start"
    /\ rmLoops' = [rmLoops EXCEPT ![l] = [pc |-> "select", seen |-> rmStopChan]]
    /\ UNCHANGED <<rmRunning, rmStopChan, rmChans, rmClosed, rmWg, rmHistory,
                   rmCall, rmPanic>>
    /\ UNCHANGED <<mpVars, rtVars, suVars, lkVars, anVars, rdVars, nuVars>>

\* case <-ticker.C: a sample is appended to the history, and the select is
\* entered again
LoopSample(l) ==
    /\ ~rmPanic
    /\ rmLoops[l].pc = "select"
    /\ rmHistory' = Min(rmHistory + 1, MaxSamples)
    /\ \E ch \in {rmStopChan, rmLoops[l].seen} :
        rmLoops' = [rmLoops EXCEPT ![l].seen = ch]
    /\ UNCHANGED <<rmRunning, rmStopChan, rmChans, rmClosed, rmWg, rmCall, rmPanic>>
    /\ UNCHANGED <<mpVars, rtVars, suVars, lkVars, anVars, rdVars, nuVars>>

\* case <-m.stopChan: return, and the deferred m.wg.Done()
LoopReturn(l) ==
    /\ ~rmPanic
    /\ rmLoops[l].pc = "select"
    /\ rmLoops[l].seen \in rmClosed
    /\ rmLoops' = [rmLoops EXCEPT ![l].pc = "exited"]
    /\ rmWg' = rmWg - 1
    /\ UNCHANGED <<rmRunning, rmStopChan, rmChans, rmClosed, rmHistory, rmCall,
                   rmPanic>>
    /\ UNCHANGED <<mpVars, rtVars, suVars, lkVars, anVars, rdVars, nuVars>>

NextMonitor ==
    \/ \E c \in MonCallers : StartBegin(c)
    \/ \E c \in MonCallers : StartReset(c)
    \/ \E c \in MonCallers : StartSpawn(c)
    \/ \E c \in MonCallers : StopBegin(c)
    \/ \E c \in MonCallers : StopWait(c)
    \/ \E c \in MonCallers : StopRenew(c)
    \/ \E l \in Loops : LoopEnter(l)
    \/ \E l \in Loops : LoopSample(l)
    \/ \E l \in Loops : LoopReturn(l)

SpecMonitor == InitMonitor /\ [][NextMonitor]_vars

(***************************************************************************)
(* The claim about ResourceMonitor (under SpecMonitor)                     *)
(***************************************************************************)
AliveLoops == {l \in Loops : rmLoops[l].pc # "exited"}
AllReturned == \A c \in MonCallers : rmCall[c].pc = "idle"

\* C40: whatever the interleaving of Start and Stop calls, at most one
\* sampling loop is alive at any time, and once every call has returned
\* m.running is true exactly when a sampling loop is alive.
C40_StartStopConsistent ==
    /\ Cardinality(AliveLoops) <= 1
    /\ AllReturned => (rmRunning <=> AliveLoops # {})

(***************************************************************************)
(* InitiateMultipartUpload failing: PutBytesMultipart and                  *)
(* NewStreamingUploader                                                    *)
(*                                                                         *)
(* A caller makes one PutBytesMultipart call and, when it has returned,    *)
(* one NewStreamingUploader call.  suNew holds what the second returned:   *)
(* the uploader (its upload id and its empty part list) or nil, the error, *)
(* and what the SDK had answered.                                          *)
(***************************************************************************)
NewStreamingUploader ==
    /\ mpc = "done"
    /\ suNew = None
    /\ \/ \E id \in UploadIds :
            suNew' = Some([uploader |-> Some([uploadID |-> id, parts |-> << >>]),
                           err |-> NoErr, out |-> NoErr])
       \/ \E out \in SdkErrors("Initiate") :
            suNew' = Some([uploader |-> None, err |-> ErrInitiateFailed(out),
                           out |-> out])
    /\ UNCHANGED <<mpVars, rtVars, suVars, lkVars, anVars, rdVars, rmVars>>

NextInitiate == NextMP \/ NewStreamingUploader

SpecInitiate == Init /\ [][NextInitiate]_vars

\* PutBytesMultipart has returned because InitiateMultipartUpload failed.
InitiateFailed == mpc = "done" /\ calls["Initiate"] > 0 /\ uploadID = None

\* C39: when InitiateMultipartUpload fails, PutBytesMultipart returns an
\* error that wraps the SDK's, having called neither UploadPart nor
\* CompleteMultipartUpload nor AbortMultipartUpload; NewStreamingUploader
\* returns a nil uploader and an error that wraps the SDK's.
C39_InitiateFailureStopsAll ==
    /\ InitiateFailed =>
        /\ lastOut \in SdkErrors("Initiate")
        /\ ret # NoErr
        /\ Unwrap(ret) = lastOut
        /\ \A p \in Parts : upCalls[p] = 0
        /\ calls["Complete"] = 0
        /\ calls["Abort"] = 0
        /\ decisions = << >>
    /\ (suNew # None /\ suNew[1].out # NoErr) =>
        /\ suNew[1].uploader = None
        /\ suNew[1].err # NoErr
        /\ Unwrap(suNew[1].err) = suNew[1].out

\* both calls made, both refused by the service
C39_Witness ==
    /\ InitiateFailed
    /\ ret = ErrInitiateFailed(SdkTransient("Initiate"))
    /\ suNew # None
    /\ suNew[1].out = SdkFatal("Initiate")
    /\ suNew[1].uploader = None

(***************************************************************************)
(* Termination of PutBytesMultipart (under SpecLive)                       *)
(*                                                                         *)
(* As long as some goroutine of the call can take a step the Go scheduler  *)
(* runs one, and every SDK call returns: the steps of the call, taken      *)
(* together, are weakly fair.  Nothing is assumed about which goroutine is *)
(* run when several can.                                                   *)
(***************************************************************************)
SpecLive == Init /\ [][NextMP]_vars /\ WF_vars(NextMP)

AllWorkersExited == \A i \in 0..(CeilDiv(Len(data), pSize) - 1) : wpc[i] = "exited"

\* C35: the call returns in every run; results is closed only after every
\* worker has finished, and stays closed; and when the caller comes to
\* decide between commit and abort it has received one result from each of
\* the partCount workers and the channel is empty.
C35_AlwaysTerminates ==
    /\ <>(mpc = "done")
    /\ [](closed => AllWorkersExited /\ wg = 0 /\ sem = 0)
    /\ [][closed => closed']_vars
    /\ []((Multipart /\ mpc = "decide") =>
            /\ closed
            /\ results = << >>
            /\ \A p \in PartNumbers : Len(upOut[p]) = 1
            /\ Len(parts) + Cardinality(FailedParts) = CeilDiv(Len(data), pSize))

\* three parts through a semaphore of one token, all committed
C35_Witness ==
    /\ mpc = "done"
    /\ CeilDiv(Len(data), pSize) = 3
    /\ EffConcurrency(concurrency) = 1
    /\ closed
    /\ AllWorkersExited
    /\ stored = Some(data)
=============================================================================
